---- MODULE Spec2Model ----
(***************************************************************************)
(* A model of the NASDAQ ITCH order-book pipeline: the UltraOrderBook      *)
(* (dense price levels, bump pool, tombstoned linear-probe index), the     *)
(* OptimizedOrderBook, the A/B feed Arbiter and the ITCH Decoder.          *)
(*                                                                         *)
(* Conventions.                                                            *)
(*  - A pointer into a pool is the 1-based slot number; NULL is 0.         *)
(*  - A uint32_t quantity is a pair <<hi, lo>> of 16-bit halves, so that   *)
(*    the 2^32 wrap of the C++ arithmetic is kept.                         *)
(*  - A uint64_t order id is the integer congruent to it modulo 2^64 with  *)
(*    the smallest magnitude: 0xFFFFFFFFFFFFFFFF is -1.  The code only     *)
(*    compares ids for equality, shifts and multiplies them modulo 2^64.   *)
(*  - The price-level arrays and the index keep only the slots the inputs  *)
(*    of the model can touch; every other slot stays zero forever.         *)
(*  - The decoder works on bytes; see the section of the Decoder.          *)
(***************************************************************************)
EXTENDS Integers, Sequences, FiniteSets, TLC

VARIABLES
    ultra,          \* one UltraOrderBook
    uref,           \* the resting orders of ultra by the order lifecycle
    tbl,            \* the entries of one UltraHashTable used alone
    tbl_live,       \* the ids inserted into tbl and not removed, with their order
    opt,            \* one OptimizedOrderBook
    g_order_pool,   \* g_order_pool_storage and g_order_pool_index
    oref,           \* the resting orders of opt by the order lifecycle
    arb,            \* one Arbiter
    feedA,          \* the packets feed A holds for popA_
    feedB,          \* the packets feed B holds for popB_
    now,            \* Clock::now(), in ticks
    hist,           \* what the feeds were sent and what next_message returned
    wire,           \* the packets still on their way to feed A and to feed B
    symtab,         \* the SymbolTable of the Decoder
    dec,            \* the last decode_one call: its buffer and its result
    syms,           \* the get_or_intern calls made on symtab, and the last one
    lst,            \* one FeedListener, its thread and its caller
    queue           \* one LockFreeQueue, its producer and its consumer

NULL == 0

---------------------------------------------------------------------------
(* uint32_t / uint16_t arithmetic                                          *)

U16 == 65536

U32(n) == <<n \div U16, n % U16>>

U32Zero == <<0, 0>>

U32Add(a, b) ==
    LET lo == a[2] + b[2]
        hi == a[1] + b[1] + (lo \div U16)
    IN  <<hi % U16, lo % U16>>

U32Sub(a, b) ==
    LET lo == a[2] - b[2]
        hi == a[1] - b[1] - (IF lo < 0 THEN 1 ELSE 0)
    IN  <<hi % U16, lo % U16>>

U32Lt(a, b) == a[1] < b[1] \/ (a[1] = b[1] /\ a[2] < b[2])

U16Inc(n) == (n + 1) % U16

U16Dec(n) == (n - 1) % U16

---------------------------------------------------------------------------
(* Inputs of the model                                                     *)

ULTRA_MIN_PRICE == 40000

ULTRA_MAX_PRICE == 60000

ULTRA_HASH_SIZE == 65536

TOMBSTONE == -1

ProbeLimit == 64

\* 7036 hashes to the slot of 0xFFFFFFFFFFFFFFFF, 7037 to the slot of 0
\* (slot 0) and 7038 to the slot of 1.
OrderIds == {1, 7038}

CollidingIds == {TOMBSTONE, 7036}

TableIds == {0, 7037, TOMBSTONE, 7036}

Sides == {"B", "S"}

Quantities == {U32(1), U32(2)}

ExecQuantities == {U32(1), U32(2)}

\* 2^30 and 2^31 shares: two orders of 2^31 at one level wrap total_quantity.
WideQuantities == {<<16384, 0>>, <<32768, 0>>}

WideExecQuantities == {<<16384, 0>>}

\* 60001 lies outside [ULTRA_MIN_PRICE, ULTRA_MAX_PRICE] and shares level 0
\* with 40000.
Prices == {40000, 60000, 60001}

\* The inputs of the three specifications of the UltraOrderBook.
SmallInputs ==
    [ids |-> CollidingIds, quantities |-> {U32(2)}, executed |-> {U32(1)},
     prices |-> {60000, 60001}, track |-> FALSE]

RefInputs ==
    [ids |-> OrderIds, quantities |-> Quantities, executed |-> ExecQuantities,
     prices |-> Prices, track |-> TRUE]

WideInputs ==
    [ids |-> CollidingIds, quantities |-> WideQuantities,
     executed |-> WideExecQuantities, prices |-> {60000, 60001}, track |-> FALSE]

OptIds == {1, 2}

\* The inputs of the OptimizedOrderBook.
OptInputs ==
    [ids |-> OptIds, quantities |-> Quantities, executed |-> ExecQuantities,
     prices |-> Prices]

\* The inputs of a run on either book: two ids that share a slot of the
\* hash table, one quantity, one price.
BothInputs ==
    [ids |-> OrderIds, quantities |-> {U32(2)}, executed |-> {U32(1)},
     prices |-> {60000}, track |-> FALSE]

\* Capacity of the order pool (the constructor's parameter).
PoolCapacity == 2

\* Fillers[j + 1] hashes to slot j of the hash table, for j in 0 .. 63:
\* ids that fill every slot an id of slot 0 is probed at.
Fillers ==
    <<14074, 738885, 1470733, 2202581, 2934429, 3673314, 4405162, 5137010,
      5868858, 2774, 509438, 1241286, 1973134, 2704982, 3443867, 4175715,
      4907563, 5639411, 5548, 279991, 1011839, 1743687, 2475535, 3214420,
      3946268, 4678116, 5409964, 1285, 50544, 782392, 1514240, 2246088,
      2984973, 3716821, 4448669, 5180517, 5912365, 4059, 552945, 1284793,
      2016641, 2755526, 3487374, 4219222, 4951070, 5682918, 6833, 323498,
      1055346, 1787194, 2526079, 3257927, 3989775, 4721623, 5453471, 2570,
      94051, 825899, 1557747, 2289595, 3028480, 3760328, 4492176, 5224024>>

\* The inputs of a run on the crowded book: the last filler, and 7037,
\* which hashes to slot 0 as the first filler does.
CrowdedInputs ==
    [ids |-> {7037, Fillers[64]}, quantities |-> {U32(2)}, executed |-> {U32(1)},
     prices |-> {60000}, track |-> FALSE]

\* Number of slots of g_order_pool_storage.
OrderPoolSize == 2

MIN_PRICE == 40000

MAX_PRICE == 60000

\* How far below zero (modulo 2^16) the model follows an order_count.
MaxUnderflow == 1

---------------------------------------------------------------------------
(* UltraHashTable                                                          *)

\* 0x9e3779b97f4a7c15, least significant byte first.
GoldenBytes == <<21, 124, 74, 127, 185, 121, 55, 158>>

\* Byte i (0 = least significant) of the 64-bit two's complement of x.
RECURSIVE U64Byte(_, _)
U64Byte(x, i) == IF i = 0 THEN x % 256 ELSE U64Byte(x \div 256, i - 1)

RECURSIVE MulColumn(_, _, _)
MulColumn(x, j, i) ==
    IF i > j THEN 0
    ELSE U64Byte(x, i) * GoldenBytes[j - i + 1] + MulColumn(x, j, i + 1)

\* Column j of order_id * 0x9e3779b97f4a7c15 with the carry of the columns
\* below it.
RECURSIVE MulAcc(_, _)
MulAcc(x, j) ==
    MulColumn(x, j, 0) + (IF j = 0 THEN 0 ELSE MulAcc(x, j - 1) \div 256)

ultra_hash(order_id) ==
    ((MulAcc(order_id, 4) % 256) + 256 * (MulAcc(order_id, 5) % 256))
        % ULTRA_HASH_SIZE

HashOf ==
    [id \in OrderIds \cup CollidingIds \cup TableIds \cup CrowdedInputs.ids
        |-> ultra_hash(id)]

EmptyEntry == [order_id |-> 0, order |-> NULL]

EntryAt(entries, idx) ==
    IF idx \in DOMAIN entries THEN entries[idx] ELSE EmptyEntry

SetEntry(entries, idx, e) ==
    [s \in DOMAIN entries \cup {idx} |-> IF s = idx THEN e ELSE entries[s]]

Max(S) == CHOOSE x \in S : \A y \in S : y <= x

Min(S) == CHOOSE x \in S : \A y \in S : x <= y

\* The key the i-th probe from h reads.
Probed(entries, h, i) == EntryAt(entries, (h + i) % ULTRA_HASH_SIZE).order_id

\* The probe loops are followed a block of probes at a time: the first
\* probe alone, then eight at a time up to the probe limit.
BlockEnd(i) == IF i = 0 THEN 0 ELSE Min({i + 7, ProbeLimit - 1})

\* The probes of the block that starts at the i-th that read one of the
\* keys.
ProbesOf(entries, h, i, keys) ==
    {j \in i .. BlockEnd(i) : Probed(entries, h, j) \in keys}

\* The loop of ultra_insert from the i-th probe on: it ends at the first
\* probe that reads 0 or order_id; first_tomb is the slot of the first
\* tombstone read before that.
RECURSIVE InsertProbe(_, _, _, _, _, _)
InsertProbe(entries, h, i, first_tomb, order_id, order) ==
    IF i >= ProbeLimit
    THEN LET idx == IF first_tomb >= 0 THEN first_tomb ELSE h % ULTRA_HASH_SIZE
         IN  SetEntry(entries, idx, [order_id |-> order_id, order |-> order])
    ELSE LET ends == ProbesOf(entries, h, i, {0, order_id})
             last == IF ends = {} THEN BlockEnd(i) + 1 ELSE Min(ends)
             tombs == {j \in ProbesOf(entries, h, i, {TOMBSTONE}) : j < last}
             tomb == IF first_tomb >= 0 \/ tombs = {} THEN first_tomb
                     ELSE (h + Min(tombs)) % ULTRA_HASH_SIZE
             idx == (h + last) % ULTRA_HASH_SIZE
         IN  IF ends = {}
             THEN InsertProbe(entries, h, last, tomb, order_id, order)
             ELSE IF Probed(entries, h, last) = 0
             THEN SetEntry(entries, IF tomb >= 0 THEN tomb ELSE idx,
                           [order_id |-> order_id, order |-> order])
             ELSE SetEntry(entries, idx, [order_id |-> order_id, order |-> order])

ultra_insert(entries, order_id, order) ==
    InsertProbe(entries, HashOf[order_id], 0, -1, order_id, order)

\* The loop of ultra_find from the i-th probe on.
RECURSIVE FindProbe(_, _, _, _)
FindProbe(entries, h, i, order_id) ==
    IF i >= ProbeLimit THEN NULL
    ELSE LET ends == ProbesOf(entries, h, i, {0, order_id})
         IN  IF ends = {} THEN FindProbe(entries, h, BlockEnd(i) + 1, order_id)
             ELSE LET e == EntryAt(entries, (h + Min(ends)) % ULTRA_HASH_SIZE)
                  IN  IF e.order_id = order_id THEN e.order ELSE NULL

ultra_find(entries, order_id) ==
    FindProbe(entries, HashOf[order_id], 0, order_id)

\* The loop of ultra_remove from the i-th probe on.
RECURSIVE RemoveProbe(_, _, _, _)
RemoveProbe(entries, h, i, order_id) ==
    IF i >= ProbeLimit THEN entries
    ELSE LET ends == ProbesOf(entries, h, i, {0, order_id})
             idx == (h + Min(ends)) % ULTRA_HASH_SIZE
         IN  IF ends = {} THEN RemoveProbe(entries, h, BlockEnd(i) + 1, order_id)
             ELSE IF EntryAt(entries, idx).order_id = order_id
             THEN SetEntry(entries, idx, [order_id |-> TOMBSTONE, order |-> NULL])
             ELSE entries

ultra_remove(entries, order_id) ==
    RemoveProbe(entries, HashOf[order_id], 0, order_id)

---------------------------------------------------------------------------
(* UltraOrderBook                                                          *)

ultra_price_to_index(price) ==
    IF price < ULTRA_MIN_PRICE \/ price > ULTRA_MAX_PRICE THEN 0
    ELSE price - ULTRA_MIN_PRICE

LevelIdx == {ultra_price_to_index(p) : p \in Prices}

UltraPriceLevel0 ==
    [total_quantity |-> U32Zero, order_count |-> 0, first_order |-> NULL]

\* A value-initialised UltraOrderBook.
UltraOrderBook0 ==
    [bid_levels |-> [i \in LevelIdx |-> UltraPriceLevel0],
     ask_levels |-> [i \in LevelIdx |-> UltraPriceLevel0],
     order_hash |-> <<>>,
     pool |-> <<>>,
     stack_top |-> 0,
     capacity |-> PoolCapacity]

\* What a level that was never written may hold.
IndeterminateLevels ==
    {UltraPriceLevel0,
     [total_quantity |-> U32(1), order_count |-> 1, first_order |-> NULL]}

\* The outcomes of default-initialising an UltraOrderBook.
UltraDefaultInit ==
    {[UltraOrderBook0 EXCEPT !.bid_levels = [i \in LevelIdx |-> lv],
                             !.ask_levels = [i \in LevelIdx |-> lv]] :
        lv \in IndeterminateLevels}

\* pool: the orders of pool_[0 .. stack_top - 1], at the slots 1 ..
\* stack_top; capacity: capacity_ of the pool.
set_id_side(id, side) == 2 * id + (IF side = "B" THEN 1 ELSE 0)

get_side(order) == IF order.id_and_side % 2 = 1 THEN "B" ELSE "S"

\* The book after the fillers but the last were added to a new book, in
\* the order of Fillers, each to buy one share at 60000: each rests in the
\* slot it hashes to, and the pool has room for two more orders.
CrowdedBook ==
    LET n == Len(Fillers) - 1
        top == ultra_price_to_index(60000)
    IN  [UltraOrderBook0 EXCEPT
            !.order_hash = [j \in 0 .. n - 1 |->
                               [order_id |-> Fillers[j + 1], order |-> j + 1]],
            !.pool = [i \in 1 .. n |->
                         [id_and_side |-> set_id_side(Fillers[i], "B"),
                          quantity |-> U32(1), price |-> 60000,
                          next |-> IF i = 1 THEN NULL ELSE i - 1]],
            !.stack_top = n,
            !.capacity = n + 2,
            !.bid_levels[top] = [total_quantity |-> U32(n), order_count |-> n,
                                 first_order |-> n]]

LevelsOf(b, is_buy) == IF is_buy THEN b.bid_levels ELSE b.ask_levels

WithLevels(b, is_buy, levels) ==
    IF is_buy THEN [b EXCEPT !.bid_levels = levels]
    ELSE [b EXCEPT !.ask_levels = levels]

ultra_add_to_level(level, order, slot) ==
    [level |-> [total_quantity |-> U32Add(level.total_quantity, order.quantity),
                order_count |-> U16Inc(level.order_count),
                first_order |-> slot],
     order |-> [order EXCEPT !.next = level.first_order]]

\* pool_[top] is written at slot top + 1.
PoolStore(pool, slot, order) ==
    IF slot <= Len(pool) THEN [pool EXCEPT ![slot] = order]
    ELSE Append(pool, order)

ultra_addOrder(b, orderId, side, quantity, price) ==
    IF ultra_find(b.order_hash, orderId) # NULL THEN b
    ELSE IF b.stack_top >= b.capacity THEN b
    ELSE LET slot == b.stack_top + 1
             order == [id_and_side |-> set_id_side(orderId, side),
                       quantity |-> quantity, price |-> price, next |-> NULL]
             index == ultra_price_to_index(price)
             is_buy == (side = "B")
             levels == LevelsOf(b, is_buy)
             r == ultra_add_to_level(levels[index], order, slot)
             b1 == [b EXCEPT !.stack_top = slot,
                             !.pool = PoolStore(b.pool, slot, r.order)]
             b2 == WithLevels(b1, is_buy, [levels EXCEPT ![index] = r.level])
         IN  [b2 EXCEPT !.order_hash = ultra_insert(b.order_hash, orderId, slot)]

ultra_executeOrder(b, orderId, executed_qty) ==
    LET slot == ultra_find(b.order_hash, orderId)
    IN  IF slot = NULL THEN b
        ELSE LET order == b.pool[slot]
                 index == ultra_price_to_index(order.price)
                 is_buy == (get_side(order) = "B")
                 levels == LevelsOf(b, is_buy)
                 qty_to_remove == IF U32Lt(executed_qty, order.quantity)
                                  THEN executed_qty ELSE order.quantity
                 left == U32Sub(order.quantity, qty_to_remove)
                 level == [levels[index] EXCEPT
                     !.total_quantity = U32Sub(@, qty_to_remove),
                     !.order_count = IF left = U32Zero THEN U16Dec(@) ELSE @]
             IN  [WithLevels(b, is_buy, [levels EXCEPT ![index] = level])
                     EXCEPT !.pool[slot].quantity = left]

ultra_deleteOrder(b, orderId) ==
    LET slot == ultra_find(b.order_hash, orderId)
    IN  IF slot = NULL THEN b
        ELSE LET order == b.pool[slot]
                 index == ultra_price_to_index(order.price)
                 is_buy == (get_side(order) = "B")
                 levels == LevelsOf(b, is_buy)
                 level == [levels[index] EXCEPT
                     !.total_quantity = U32Sub(@, order.quantity),
                     !.order_count = U16Dec(@)]
             IN  [WithLevels(b, is_buy, [levels EXCEPT ![index] = level])
                     EXCEPT !.pool[slot].quantity = U32Zero,
                            !.order_hash = ultra_remove(b.order_hash, orderId)]

\* A replace that adds the new id though the old one is not found.
ultra_replaceOrder_AddsAnyway(b, oldId, newId, newQty, newPrice) ==
    LET slot == ultra_find(b.order_hash, oldId)
    IN  IF slot = NULL THEN ultra_addOrder(b, newId, "B", newQty, newPrice)
        ELSE LET oldOrder == b.pool[slot]
                 side == get_side(oldOrder)
                 idx == ultra_price_to_index(oldOrder.price)
                 levels == LevelsOf(b, side = "B")
                 level == [levels[idx] EXCEPT
                     !.total_quantity = U32Sub(@, oldOrder.quantity),
                     !.order_count = U16Dec(@)]
                 b1 == [WithLevels(b, side = "B", [levels EXCEPT ![idx] = level])
                           EXCEPT !.pool[slot].quantity = U32Zero,
                                  !.order_hash = ultra_remove(b.order_hash, oldId)]
             IN  ultra_addOrder(b1, newId, side, newQty, newPrice)

\* ultra_replaceOrder without "levels[idx].order_count--".
ultra_replaceOrder_KeepsCount(b, oldId, newId, newQty, newPrice) ==
    LET slot == ultra_find(b.order_hash, oldId)
    IN  IF slot = NULL THEN b
        ELSE LET oldOrder == b.pool[slot]
                 side == get_side(oldOrder)
                 idx == ultra_price_to_index(oldOrder.price)
                 levels == LevelsOf(b, side = "B")
                 level == [levels[idx] EXCEPT
                     !.total_quantity = U32Sub(@, oldOrder.quantity)]
                 b1 == [WithLevels(b, side = "B", [levels EXCEPT ![idx] = level])
                           EXCEPT !.pool[slot].quantity = U32Zero,
                                  !.order_hash = ultra_remove(b.order_hash, oldId)]
             IN  ultra_addOrder(b1, newId, side, newQty, newPrice)

ultra_replaceOrder(b, oldId, newId, newQty, newPrice) ==
    LET slot == ultra_find(b.order_hash, oldId)
    IN  IF slot = NULL THEN b
        ELSE LET oldOrder == b.pool[slot]
                 side == get_side(oldOrder)
                 idx == ultra_price_to_index(oldOrder.price)
                 levels == LevelsOf(b, side = "B")
                 level == [levels[idx] EXCEPT
                     !.total_quantity = U32Sub(@, oldOrder.quantity),
                     !.order_count = U16Dec(@)]
                 b1 == [WithLevels(b, side = "B", [levels EXCEPT ![idx] = level])
                           EXCEPT !.pool[slot].quantity = U32Zero,
                                  !.order_hash = ultra_remove(b.order_hash, oldId)]
             IN  ultra_addOrder(b1, newId, side, newQty, newPrice)

\* reset_pool, lines 465-470: the pool's stack_top_ and the two level
\* arrays are zeroed; order_hash_ and the orders in pool_ are left alone.
reset_pool(b) ==
    [b EXCEPT !.stack_top = 0,
              !.bid_levels = [i \in LevelIdx |-> UltraPriceLevel0],
              !.ask_levels = [i \in LevelIdx |-> UltraPriceLevel0]]

ultra_getBestBid(b) ==
    LET live == {i \in LevelIdx : b.bid_levels[i].total_quantity # U32Zero}
    IN  IF live = {} THEN 0 ELSE ULTRA_MIN_PRICE + Max(live)

ultra_getBestAsk(b) ==
    LET live == {i \in LevelIdx : b.ask_levels[i].total_quantity # U32Zero}
    IN  IF live = {} THEN 0 ELSE ULTRA_MIN_PRICE + Min(live)

---------------------------------------------------------------------------
(* OptimizedOrderBook and the global order pool                            *)

price_to_index(price) ==
    IF price < MIN_PRICE \/ price > MAX_PRICE THEN 0 ELSE price - MIN_PRICE

PRICE_LEVELS == MAX_PRICE - MIN_PRICE + 1

FastPriceLevel0 ==
    [quantity |-> U32Zero, order_count |-> 0, active |-> 0, first_order |-> NULL]

\* Static storage is zero-initialised; a side of "" is not 'B'.
Order0 ==
    [id |-> 0, side |-> "", quantity |-> U32Zero, price |-> 0,
     next |-> NULL, prev |-> NULL]

OrderPool0 == [storage |-> [i \in 1..OrderPoolSize |-> Order0], index |-> 0]

\* A freshly constructed OptimizedOrderBook; order_hash_ is the unordered_map
\* of the FastHashTable.
OptimizedOrderBook0 ==
    [bid_levels |-> [i \in LevelIdx |-> FastPriceLevel0],
     ask_levels |-> [i \in LevelIdx |-> FastPriceLevel0],
     order_hash |-> <<>>]

\* The slot handed out and the pool after the call.
acquire_order(pool) ==
    LET index == IF pool.index >= OrderPoolSize THEN 0 ELSE pool.index
    IN  [slot |-> index + 1, pool |-> [pool EXCEPT !.index = index + 1]]

find(order_hash, order_id) ==
    IF order_id \in DOMAIN order_hash THEN order_hash[order_id] ELSE NULL

insert(order_hash, order_id, order) ==
    [x \in DOMAIN order_hash \cup {order_id} |->
        IF x = order_id THEN order ELSE order_hash[x]]

remove(order_hash, order_id) ==
    [x \in DOMAIN order_hash \ {order_id} |-> order_hash[x]]

\* The level and the storage after add_to_level_fast(order, level), the
\* assignments taken in the order of the code.
add_to_level_fast(storage, level, slot) ==
    LET st1 == [storage EXCEPT ![slot].next = level.first_order]
        st2 == IF level.first_order # NULL
               THEN [st1 EXCEPT ![level.first_order].prev = slot] ELSE st1
    IN  [level |-> [quantity |-> U32Add(level.quantity, storage[slot].quantity),
                    order_count |-> U16Inc(level.order_count),
                    active |-> 1,
                    first_order |-> slot],
         storage |-> [st2 EXCEPT ![slot].prev = NULL]]

remove_from_level_fast(storage, level, slot) ==
    LET quantity == U32Sub(level.quantity, storage[slot].quantity)
        prev == storage[slot].prev
        st1 == IF prev # NULL THEN [storage EXCEPT ![prev].next = storage[slot].next]
               ELSE storage
        first == IF prev # NULL THEN level.first_order ELSE storage[slot].next
        next == st1[slot].next
        st2 == IF next # NULL THEN [st1 EXCEPT ![next].prev = st1[slot].prev]
               ELSE st1
    IN  [level |-> [quantity |-> quantity,
                    order_count |-> U16Dec(level.order_count),
                    active |-> IF quantity = U32Zero THEN 0 ELSE level.active,
                    first_order |-> IF quantity = U32Zero THEN NULL ELSE first],
         storage |-> st2]

OptLevels(book, is_buy) == IF is_buy THEN book.bid_levels ELSE book.ask_levels

OptWithLevels(book, is_buy, levels) ==
    IF is_buy THEN [book EXCEPT !.bid_levels = levels]
    ELSE [book EXCEPT !.ask_levels = levels]

\* addOrder without the early exit: an id in the index is added again.
addOrder_Again(w, orderId, side, quantity, price) ==
    LET a == acquire_order(w.pool)
        order == [id |-> orderId, side |-> side, quantity |-> quantity,
                  price |-> price, next |-> NULL, prev |-> NULL]
        storage == [a.pool.storage EXCEPT ![a.slot] = order]
        is_buy == (side = "B")
        levels == OptLevels(w.book, is_buy)
        index == price_to_index(price)
        r == add_to_level_fast(storage, levels[index], a.slot)
        book == OptWithLevels(w.book, is_buy, [levels EXCEPT ![index] = r.level])
    IN  [book |-> [book EXCEPT !.order_hash = insert(@, orderId, a.slot)],
         pool |-> [a.pool EXCEPT !.storage = r.storage]]

\* A book operation maps w = [book, pool] to the [book, pool] after it.
addOrder(w, orderId, side, quantity, price) ==
    IF find(w.book.order_hash, orderId) # NULL THEN w
    ELSE LET a == acquire_order(w.pool)
             order == [id |-> orderId, side |-> side, quantity |-> quantity,
                       price |-> price, next |-> NULL, prev |-> NULL]
             storage == [a.pool.storage EXCEPT ![a.slot] = order]
             is_buy == (side = "B")
             levels == OptLevels(w.book, is_buy)
             index == price_to_index(price)
             r == add_to_level_fast(storage, levels[index], a.slot)
             book == OptWithLevels(w.book, is_buy, [levels EXCEPT ![index] = r.level])
         IN  [book |-> [book EXCEPT !.order_hash = insert(@, orderId, a.slot)],
              pool |-> [a.pool EXCEPT !.storage = r.storage]]

deleteOrder(w, orderId) ==
    LET slot == find(w.book.order_hash, orderId)
    IN  IF slot = NULL THEN w
        ELSE LET order == w.pool.storage[slot]
                 is_buy == (order.side = "B")
                 levels == OptLevels(w.book, is_buy)
                 index == price_to_index(order.price)
                 r == remove_from_level_fast(w.pool.storage, levels[index], slot)
                 book == OptWithLevels(w.book, is_buy, [levels EXCEPT ![index] = r.level])
             IN  [book |-> [book EXCEPT !.order_hash = remove(@, orderId)],
                  pool |-> [w.pool EXCEPT !.storage = r.storage]]

executeOrder(w, orderId, executed_qty) ==
    LET slot == find(w.book.order_hash, orderId)
    IN  IF slot = NULL THEN w
        ELSE LET order == w.pool.storage[slot]
                 qty_to_remove == IF U32Lt(executed_qty, order.quantity)
                                  THEN executed_qty ELSE order.quantity
                 is_buy == (order.side = "B")
                 levels == OptLevels(w.book, is_buy)
                 index == price_to_index(order.price)
                 level == [levels[index] EXCEPT !.quantity = U32Sub(@, qty_to_remove)]
                 left == U32Sub(order.quantity, qty_to_remove)
                 w1 == [book |-> OptWithLevels(w.book, is_buy,
                                               [levels EXCEPT ![index] = level]),
                        pool |-> [w.pool EXCEPT !.storage[slot].quantity = left]]
             IN  IF left = U32Zero THEN deleteOrder(w1, orderId) ELSE w1

replaceOrder(w, oldId, newId, newQty, newPrice) ==
    LET slot == find(w.book.order_hash, oldId)
    IN  IF slot = NULL THEN w
        ELSE LET oldOrder == w.pool.storage[slot]
                 is_buy == (oldOrder.side = "B")
                 levels == OptLevels(w.book, is_buy)
             IN  IF oldOrder.price # newPrice
                 THEN LET old_index == price_to_index(oldOrder.price)
                          r1 == remove_from_level_fast(w.pool.storage,
                                                       levels[old_index], slot)
                          levels1 == [levels EXCEPT ![old_index] = r1.level]
                          st == [r1.storage EXCEPT
                                    ![slot].id = newId, ![slot].quantity = newQty,
                                    ![slot].price = newPrice,
                                    ![slot].prev = NULL, ![slot].next = NULL]
                          new_index == price_to_index(newPrice)
                          r2 == add_to_level_fast(st, levels1[new_index], slot)
                          book == OptWithLevels(w.book, is_buy,
                                      [levels1 EXCEPT ![new_index] = r2.level])
                      IN  [book |-> [book EXCEPT !.order_hash =
                                        insert(remove(@, oldId), newId, slot)],
                           pool |-> [w.pool EXCEPT !.storage = r2.storage]]
                 ELSE LET index == price_to_index(newPrice)
                          level == [levels[index] EXCEPT !.quantity =
                                       U32Add(U32Sub(@, oldOrder.quantity), newQty)]
                          book == OptWithLevels(w.book, is_buy,
                                      [levels EXCEPT ![index] = level])
                      IN  [book |-> [book EXCEPT !.order_hash =
                                        insert(remove(@, oldId), newId, slot)],
                           pool |-> [w.pool EXCEPT
                                        !.storage[slot].id = newId,
                                        !.storage[slot].quantity = newQty]]

\* The loop runs i = PRICE_LEVELS - 1 down to 1: "i > 0".
getBestBid(book) ==
    LET live == {i \in LevelIdx :
                    /\ i > 0 /\ i <= PRICE_LEVELS - 1
                    /\ book.bid_levels[i].active # 0
                    /\ book.bid_levels[i].quantity # U32Zero}
    IN  IF live = {} THEN 0 ELSE Max(live) + MIN_PRICE

getBestAsk(book) ==
    LET live == {i \in LevelIdx :
                    /\ i >= 0 /\ i < PRICE_LEVELS
                    /\ book.ask_levels[i].active # 0
                    /\ book.ask_levels[i].quantity # U32Zero}
    IN  IF live = {} THEN 0 ELSE Min(live) + MIN_PRICE

---------------------------------------------------------------------------
(* The resting orders by the order lifecycle: an order rests from its Add  *)
(* (unless the Add is dropped: duplicate id, or pool exhausted) until its  *)
(* Delete, its Replace, or the Exec/Cancel that brings its quantity to 0.  *)

RefAdd(r, accepted, id, side, quantity, price) ==
    IF id \in DOMAIN r \/ ~accepted THEN r
    ELSE [x \in DOMAIN r \cup {id} |->
             IF x = id THEN [side |-> side, quantity |-> quantity, price |-> price]
             ELSE r[x]]

RefDelete(r, id) == [x \in DOMAIN r \ {id} |-> r[x]]

RefExecute(r, id, executed_qty) ==
    IF id \notin DOMAIN r THEN r
    ELSE LET q == r[id].quantity
             left == IF U32Lt(executed_qty, q) THEN U32Sub(q, executed_qty)
                     ELSE U32Zero
         IN  IF left = U32Zero THEN RefDelete(r, id)
             ELSE [r EXCEPT ![id].quantity = left]

RefReplace(r, accepted, oldId, newId, newQty, newPrice) ==
    IF oldId \notin DOMAIN r THEN r
    ELSE RefAdd(RefDelete(r, oldId), accepted, newId, r[oldId].side, newQty, newPrice)

---------------------------------------------------------------------------
(* The A/B feed Arbiter.  A message is what the arbiter reads of its bytes: *)
(* msz, the size itch_message_size gives its type byte (0: unknown type);   *)
(* bytes, how many of them the packet holds (fewer than msz: cut short);    *)
(* tn, the tracking number of its header.  Sizes are counted in messages.   *)

Msg(tn) == [msz |-> 1, bytes |-> 1, tn |-> tn]

UnknownTypeMsg == [msz |-> 0, bytes |-> 1, tn |-> 0]

CutShortMsg(tn) == [msz |-> 1, bytes |-> 0, tn |-> tn]

\* The tracking numbers on the wire, and the packets the feeds carry.
TrackingNumbers == 0 .. 3

Packets ==
    {<<Msg(tn)>> : tn \in TrackingNumbers}
        \cup {<<Msg(2), Msg(3)>>, <<UnknownTypeMsg, Msg(1)>>, <<Msg(1), CutShortMsg(2)>>}

\* Constructor arguments of the arbiter, and the clock, in ticks.
\* The largest gap_capacity an arbiter of the model is constructed with,
\* next to 0 and 1, and the default of the constructor.
GapCapacity == 2

GapCapacities == {0, 1, GapCapacity}

DefaultGapCapacity == 65536

TtlTicks == 1

MaxTime == 2

\* Packets sent on the two feeds together.
MaxPackets == 3

tracking_number_from(pkt) == pkt.tn

\* The messages of one packet: the walk stops at an unknown type or at a
\* message that runs past the end of the packet.
RECURSIVE PacketMessages(_)
PacketMessages(pkt) ==
    IF pkt = <<>> THEN <<>>
    ELSE LET cur == Head(pkt)
         IN  IF cur.msz = 0 \/ cur.msz > cur.bytes THEN <<>>
             ELSE <<cur>> \o PacketMessages(Tail(pkt))

\* Pops every packet of the feed and appends its messages to buf.
RECURSIVE load_feed_messages(_, _)
load_feed_messages(feed, buf) ==
    IF feed = <<>> THEN buf
    ELSE load_feed_messages(Tail(feed), buf \o PacketMessages(Head(feed)))

ArbiterMetrics0 ==
    [gap_detected |-> 0, gap_filled |-> 0, dup_dropped |-> 0,
     gap_dropped_ttl |-> 0, gap_dropped_capacity |-> 0]

\* gap_ is a function from the buffered tracking numbers to [pkt, ts].
\* stopped: the process has crashed or hangs inside a call.
Arbiter0 ==
    [expected |-> 1, gap |-> <<>>, gap_capacity |-> DefaultGapCapacity,
     metrics |-> ArbiterMetrics0,
     bufA |-> <<>>, bufB |-> <<>>, ready |-> <<>>, stopped |-> FALSE]

Arbiter(gap_capacity) == [Arbiter0 EXCEPT !.gap_capacity = gap_capacity]

GapBegin(gap) == CHOOSE k \in DOMAIN gap : \A j \in DOMAIN gap : k <= j

GapErase(gap, k) == [j \in DOMAIN gap \ {k} |-> gap[j]]

\* std::map::emplace: an existing key keeps its item.
GapEmplace(gap, k, item) ==
    IF k \in DOMAIN gap THEN gap
    ELSE [j \in DOMAIN gap \cup {k} |-> IF j = k THEN item ELSE gap[j]]

\* A pruning that moves expected past the tracking number it gives up.
RECURSIVE prune_expired_SkipsHole(_, _)
prune_expired_SkipsHole(a, clock) ==
    IF DOMAIN a.gap = {} THEN a
    ELSE LET it == GapBegin(a.gap)
         IN  IF clock - a.gap[it].ts > TtlTicks
             THEN prune_expired_SkipsHole(
                      [a EXCEPT !.gap = GapErase(@, it),
                                !.metrics.gap_dropped_ttl = @ + 1,
                                !.expected = it + 1], clock)
             ELSE a

\* Drops the entries that waited longer than the TTL, lowest key first.
RECURSIVE prune_expired(_, _)
prune_expired(a, clock) ==
    IF DOMAIN a.gap = {} THEN a
    ELSE LET it == GapBegin(a.gap)
         IN  IF clock - a.gap[it].ts > TtlTicks
             THEN prune_expired([a EXCEPT !.gap = GapErase(@, it),
                                          !.metrics.gap_dropped_ttl = @ + 1], clock)
             ELSE a

IsDuplicate_Never(tn, expected) == FALSE

\* A test that also drops the message that is expected.
IsDuplicate_UpTo(tn, expected) == tn <= expected

IsDuplicate(tn, expected) == tn < expected

DrainGap_Skip(a) == a

\* A drain that puts each buffered message in front of ready_.
RECURSIVE DrainGap_Prepends(_)
DrainGap_Prepends(a) ==
    IF a.expected \notin DOMAIN a.gap THEN a
    ELSE DrainGap_Prepends([a EXCEPT !.ready = <<a.gap[a.expected].pkt>> \o @,
                                     !.gap = GapErase(@, a.expected),
                                     !.metrics.gap_filled = @ + 1,
                                     !.expected = @ + 1])

\* A drain that moves one buffered message only (an if for the while).
DrainGap_Once(a) ==
    IF a.expected \notin DOMAIN a.gap THEN a
    ELSE [a EXCEPT !.ready = Append(@, a.gap[a.expected].pkt),
                   !.gap = GapErase(@, a.expected),
                   !.metrics.gap_filled = @ + 1,
                   !.expected = @ + 1]

\* Moves the buffered messages that follow expected to ready_.
RECURSIVE DrainGap(_)
DrainGap(a) ==
    IF a.expected \notin DOMAIN a.gap THEN a
    ELSE DrainGap([a EXCEPT !.ready = Append(@, a.gap[a.expected].pkt),
                            !.gap = GapErase(@, a.expected),
                            !.metrics.gap_filled = @ + 1,
                            !.expected = @ + 1])

\* The lambda of next_message, on the buffers named x and y.  ret is the
\* returned optional: <<>> or <<msg>>.  ub: the call erased gap_.begin() of
\* an empty map (gap_capacity 0), which is undefined; arb is then the
\* outcome in which the erase does nothing.
pick_next(a, x, y, clock) ==
    IF a[x] = <<>> /\ a[y] = <<>> THEN [arb |-> a, ret |-> <<>>, ub |-> FALSE]
    ELSE LET chooseA == IF a[x] # <<>> /\ a[y] # <<>>
                        THEN tracking_number_from(Head(a[x]))
                                 <= tracking_number_from(Head(a[y]))
                        ELSE a[x] # <<>>
             src == IF chooseA THEN x ELSE y
             msg == Head(a[src])
             a1 == [a EXCEPT ![src] = Tail(@)]
             tn == tracking_number_from(msg)
         IN  IF tn = 0 THEN [arb |-> a1, ret |-> <<msg>>, ub |-> FALSE]
             ELSE IF IsDuplicate(tn, a1.expected)
             THEN [arb |-> [a1 EXCEPT !.metrics.dup_dropped = @ + 1],
                   ret |-> <<>>, ub |-> FALSE]
             ELSE IF tn > a1.expected
             THEN LET full == Cardinality(DOMAIN a1.gap) >= a1.gap_capacity
                      a2 == IF full
                            THEN [a1 EXCEPT !.metrics.gap_dropped_capacity = @ + 1,
                                            !.gap = IF DOMAIN @ = {} THEN @
                                                    ELSE GapErase(@, GapBegin(@))]
                            ELSE a1
                  IN  [arb |-> [a2 EXCEPT
                                   !.gap = GapEmplace(@, tn, [pkt |-> msg, ts |-> clock]),
                                   !.metrics.gap_detected = @ + 1],
                       ret |-> <<>>, ub |-> full /\ DOMAIN a1.gap = {}]
             ELSE [arb |-> DrainGap([a1 EXCEPT !.expected = @ + 1]),
                   ret |-> <<msg>>, ub |-> FALSE]

\* One call: the arbiter after it, the feeds after it, the returned optional,
\* and whether the message came from ready_.
next_message(a, popA, popB, clock) ==
    LET a0 == prune_expired(a, clock)
    IN  IF a0.ready # <<>>
        THEN [arb |-> [a0 EXCEPT !.ready = Tail(@)], popA |-> popA, popB |-> popB,
              ret |-> <<Head(a0.ready)>>, staged |-> TRUE, ub |-> FALSE]
        ELSE LET a1 == [a0 EXCEPT !.bufA = load_feed_messages(popA, @),
                                  !.bufB = load_feed_messages(popB, @)]
                 m1 == pick_next(a1, "bufA", "bufB", clock)
                 m2 == pick_next(m1.arb, "bufB", "bufA", clock)
                 m == IF m1.ret # <<>> THEN m1 ELSE m2
             IN  [arb |-> m.arb, popA |-> <<>>, popB |-> <<>>,
                  ret |-> m.ret, staged |-> FALSE,
                  ub |-> m1.ub \/ (m1.ret = <<>> /\ m2.ub)]

---------------------------------------------------------------------------
(* The ITCH Decoder and the SymbolTable.  A buffer is the sequence of its  *)
(* bytes (0 .. 255).  An unsigned integer of the program is the sequence   *)
(* of its bytes, most significant first; the host is little-endian (the    *)
(* program is built with the x86 intrinsics headers).                      *)

\* The character codes the model uses.
ASCII ==
    [S |-> 83, R |-> 82, A |-> 65, F |-> 70, E |-> 69, C |-> 67, X |-> 88,
     D |-> 68, U |-> 85, B |-> 66, Q |-> 81, space |-> 32]

Field(name, width) == [name |-> name, width |-> width]

\* The packed structs of messages.hpp, member by member.
CommonHeader ==
    <<Field("messageType", 1), Field("stockLocate", 2), Field("trackingNumber", 2)>>

SystemEventMessage ==
    CommonHeader \o <<Field("timestamp", 6), Field("eventCode", 1)>>

StockDirectoryMessage ==
    CommonHeader \o
    <<Field("timestamp", 6), Field("stockSymbol", 8), Field("marketCategory", 1),
      Field("financialStatusIndicator", 1), Field("roundLotSize", 4),
      Field("roundLotsOnly", 1), Field("issueClassification", 1),
      Field("issueSubType", 2), Field("authenticity", 1),
      Field("shortSaleThresholdIndicator", 1), Field("ipoFlag", 1),
      Field("luldReferencePriceTier", 1), Field("etpFlag", 1),
      Field("etpLeverageFactor", 4), Field("inverseIndicator", 1)>>

AddOrderMessage ==
    CommonHeader \o
    <<Field("timestamp", 6), Field("orderReferenceNumber", 8),
      Field("buySellIndicator", 1), Field("shares", 4),
      Field("stockSymbol", 8), Field("price", 4)>>

AddOrderWithMPIDMessage == AddOrderMessage \o <<Field("attribution", 4)>>

OrderExecutedMessage ==
    CommonHeader \o
    <<Field("timestamp", 6), Field("orderReferenceNumber", 8),
      Field("executedShares", 4), Field("matchNumber", 8)>>

OrderExecutedWithPriceMessage ==
    OrderExecutedMessage \o <<Field("printable", 1), Field("executionPrice", 4)>>

OrderCancelMessage ==
    CommonHeader \o
    <<Field("timestamp", 6), Field("orderReferenceNumber", 8),
      Field("canceledShares", 4)>>

OrderDeleteMessage ==
    CommonHeader \o <<Field("timestamp", 6), Field("orderReferenceNumber", 8)>>

OrderReplaceMessage ==
    CommonHeader \o
    <<Field("timestamp", 6), Field("originalOrderReferenceNumber", 8),
      Field("newOrderReferenceNumber", 8), Field("shares", 4), Field("price", 4)>>

RECURSIVE sizeof(_)
sizeof(layout) ==
    IF layout = <<>> THEN 0 ELSE Head(layout).width + sizeof(Tail(layout))

\* The struct a message of this type is copied into: <<>> for an unknown type.
LayoutOf(type) ==
    CASE type = ASCII.S -> SystemEventMessage
      [] type = ASCII.R -> StockDirectoryMessage
      [] type = ASCII.A -> AddOrderMessage
      [] type = ASCII.F -> AddOrderWithMPIDMessage
      [] type = ASCII.E -> OrderExecutedMessage
      [] type = ASCII.C -> OrderExecutedWithPriceMessage
      [] type = ASCII.X -> OrderCancelMessage
      [] type = ASCII.D -> OrderDeleteMessage
      [] type = ASCII.U -> OrderReplaceMessage
      [] OTHER -> <<>>

\* A size function that takes an unknown type for a bare header.
itch_message_size_Header(type) ==
    IF LayoutOf(type) = <<>> THEN sizeof(CommonHeader) ELSE sizeof(LayoutOf(type))

itch_message_size(type) == sizeof(LayoutOf(type))

\* The bytes of a member of the struct that the first bytes of buf were
\* copied into, in memory order.
RECURSIVE Member(_, _, _)
Member(buf, layout, name) ==
    IF Head(layout).name = name THEN SubSeq(buf, 1, Head(layout).width)
    ELSE Member(SubSeq(buf, Head(layout).width + 1, Len(buf)), Tail(layout), name)

Reverse(bytes) == [i \in 1 .. Len(bytes) |-> bytes[Len(bytes) + 1 - i]]

\* The integer a little-endian host reads from these bytes of memory.
Load(bytes) == Reverse(bytes)

\* An ntohl that leaves the bytes in place, as on a big-endian host.
ntohl_Keeps(v) == v

\* ntohl and bswap64 on a little-endian host: the integer with the bytes of
\* v in the opposite order.
ntohl(v) == Reverse(v)

bswap64(v) == Reverse(v)

\* SymbolTable: map_ (trimmed symbol -> id), storage_ (id -> the 8 bytes)
\* and next_id_.
SymbolTable0 == [map |-> <<>>, storage |-> <<>>, next_id |-> 1]

RECURSIVE Trimmed(_)
Trimmed(sv) ==
    IF sv # <<>> /\ sv[Len(sv)] = ASCII.space
    THEN Trimmed(SubSeq(sv, 1, Len(sv) - 1)) ELSE sv

\* The id returned and the table after the call.
get_or_intern(t, sym8) ==
    LET sv == Trimmed(sym8)
    IN  IF sv \in DOMAIN t.map THEN [id |-> t.map[sv], symtab |-> t]
        ELSE LET id == t.next_id
             IN  [id |-> id,
                  symtab |->
                     [map |-> [k \in DOMAIN t.map \cup {sv} |->
                                  IF k = sv THEN id ELSE t.map[k]],
                      storage |-> [k \in DOMAIN t.storage \cup {id} |->
                                      IF k = id THEN sym8 ELSE t.storage[k]],
                      next_id |-> (id + 1) % U16]]

\* DecodeResult: event is the optional, <<>> or <<e>>.
NoEvent(message_size) == [event |-> <<>>, message_size |-> message_size]

\* The result and the symbol table after decode_one(ptr, size), where buf
\* holds the size bytes at ptr.
decode_one(t, buf) ==
    LET size == Len(buf)
    IN  IF size < sizeof(CommonHeader) THEN [res |-> NoEvent(0), symtab |-> t]
        ELSE
    LET type == buf[1]
        msize == itch_message_size(type)
        msg == LayoutOf(type)
        ref(name) == bswap64(Load(Member(buf, msg, name)))
        u32(name) == ntohl(Load(Member(buf, msg, name)))
    IN  IF msize = 0 \/ msize > size THEN [res |-> NoEvent(0), symtab |-> t]
        ELSE IF type \in {ASCII.A, ASCII.F}
        THEN LET sym == get_or_intern(t, Member(buf, msg, "stockSymbol"))
             IN  [res |-> [event |-> <<[kind |-> "Add",
                                        id |-> ref("orderReferenceNumber"),
                                        side |-> Member(buf, msg, "buySellIndicator")[1],
                                        qty |-> u32("shares"),
                                        px |-> u32("price"),
                                        sym_id |-> sym.id]>>,
                           message_size |-> msize],
                  symtab |-> sym.symtab]
        ELSE IF type \in {ASCII.E, ASCII.C}
        THEN [res |-> [event |-> <<[kind |-> "Exec",
                                    id |-> ref("orderReferenceNumber"),
                                    exec_qty |-> u32("executedShares")]>>,
                       message_size |-> msize],
              symtab |-> t]
        ELSE IF type = ASCII.X
        THEN [res |-> [event |-> <<[kind |-> "Cancel",
                                    id |-> ref("orderReferenceNumber"),
                                    qty |-> u32("canceledShares")]>>,
                       message_size |-> msize],
              symtab |-> t]
        ELSE IF type = ASCII.D
        THEN [res |-> [event |-> <<[kind |-> "Delete",
                                    id |-> ref("orderReferenceNumber")]>>,
                       message_size |-> msize],
              symtab |-> t]
        ELSE IF type = ASCII.U
        THEN [res |-> [event |-> <<[kind |-> "Replace",
                                    old_id |-> ref("originalOrderReferenceNumber"),
                                    new_id |-> ref("newOrderReferenceNumber"),
                                    qty |-> u32("shares"),
                                    px |-> u32("price"),
                                    sym_id |-> 0]>>,
                       message_size |-> msize],
              symtab |-> t]
        ELSE [res |-> NoEvent(msize), symtab |-> t]

\* The field values of the messages the decoder is given, as the bytes the
\* wire carries (most significant first).
WireRefs == {<<1, 2, 3, 4, 5, 6, 7, 8>>, <<0, 0, 0, 0, 0, 0, 0, 9>>}

WireShares == {<<1, 2, 3, 4>>}

WirePrices == {<<0, 0, 234, 96>>, <<5, 6, 7, 8>>}

WireSides == {<<ASCII.B>>, <<ASCII.S>>}

WireSymbols ==
    {<<ASCII.A, ASCII.B>> \o [i \in 1 .. 6 |-> ASCII.space],
     <<ASCII.Q>> \o [i \in 1 .. 7 |-> ASCII.space]}

\* The well-formed messages, by the fields the wire carries for the type.
AddFields ==
    [messageType : {<<ASCII.A>>, <<ASCII.F>>}, orderReferenceNumber : WireRefs,
     buySellIndicator : WireSides, shares : WireShares,
     stockSymbol : WireSymbols, price : WirePrices]

ExecFields ==
    [messageType : {<<ASCII.E>>, <<ASCII.C>>}, orderReferenceNumber : WireRefs,
     executedShares : WirePrices]

CancelFields ==
    [messageType : {<<ASCII.X>>}, orderReferenceNumber : WireRefs,
     canceledShares : WirePrices]

DeleteFields == [messageType : {<<ASCII.D>>}, orderReferenceNumber : WireRefs]

ReplaceFields ==
    [messageType : {<<ASCII.U>>}, originalOrderReferenceNumber : WireRefs,
     newOrderReferenceNumber : WireRefs, shares : WireShares, price : WirePrices]

SilentFields ==
    [messageType : {<<ASCII.S>>}]
        \cup [messageType : {<<ASCII.R>>}, stockSymbol : WireSymbols]

WellFormed ==
    AddFields \cup ExecFields \cup CancelFields \cup DeleteFields
        \cup ReplaceFields \cup SilentFields

\* The bytes of a member the model gives no value: 201, 202, ...
Filler(width) == [i \in 1 .. width |-> 200 + i]

\* The message on the wire: the members in the order of the struct, each
\* integer big-endian.
RECURSIVE WireBytes(_, _)
WireBytes(layout, f) ==
    IF layout = <<>> THEN <<>>
    ELSE (IF Head(layout).name \in DOMAIN f THEN f[Head(layout).name]
          ELSE Filler(Head(layout).width))
             \o WireBytes(Tail(layout), f)

Wire(f) == WireBytes(LayoutOf(f.messageType[1]), f)

\* A message of a type the program does not know.
UnknownWire == <<ASCII.Q>> \o Filler(11)

\* What decode_one is called with: a whole message (fields: <<f>>), alone
\* or followed by another byte, a message cut short, or an unknown type.
DecoderCalls ==
    {[buf |-> Wire(f), fields |-> <<f>>] : f \in WellFormed}
        \cup {[buf |-> Wire(f) \o <<ASCII.S>>, fields |-> <<f>>] : f \in WellFormed}
        \cup {[buf |-> SubSeq(Wire(f), 1, Len(Wire(f)) - 1), fields |-> <<>>] :
                  f \in WellFormed}
        \cup {[buf |-> SubSeq(Wire(f), 1, 4), fields |-> <<>>] : f \in AddFields}
        \cup {[buf |-> UnknownWire, fields |-> <<>>],
              [buf |-> <<>>, fields |-> <<>>]}

\* No call yet.
NoDecode ==
    [buf |-> <<>>, fields |-> <<>>, res |-> NoEvent(0), before |-> SymbolTable0,
     calls |-> 0]

\* The symbols get_or_intern is asked for: "AB", "Q", "A" and the blank
\* symbol, each padded with spaces to 8 characters.
Padded(sv) == sv \o [i \in 1 .. 8 - Len(sv) |-> ASCII.space]

InternSymbols ==
    {Padded(<<ASCII.A, ASCII.B>>), Padded(<<ASCII.Q>>), Padded(<<ASCII.A>>),
     Padded(<<>>)}

\* How many distinct symbols a table has interned before the symbols above
\* are asked for: none, or all but the last two ids of SymbolId (uint16_t).
Filled == {0, U16 - 3}

\* The table after n distinct symbols, none of them among InternSymbols and
\* none asked for again, were interned: they hold the ids 1 .. n, and map
\* and storage keep only the entries made for InternSymbols.  Writing
\* storage_[id] for an id in 1 .. n changes the bytes under the key of the
\* symbol that holds id; that entry is then no longer found by its symbol.
SymbolTableAfter(n) == [SymbolTable0 EXCEPT !.next_id = n + 1]

\* No get_or_intern call yet.  order: the trimmed symbols asked for, in the
\* order of their first call; last: the last call, <<>> or <<c>>.
NoIntern(n) == [filled |-> n, order |-> <<>>, last |-> <<>>]

---------------------------------------------------------------------------
(* The LockFreeQueue and the FeedListener.  An element of the queue is a   *)
(* PacketView, [data, len]; the copy of an element is two accesses, one    *)
(* for each member.  buffer_ is indexed from 0.                            *)

\* PacketView{}: what std::vector<T> buffer_(capacity) holds at the start.
PacketView0 == [data |-> 0, len |-> 0]

\* The n-th value the producer pushes.
PacketView(n) == [data |-> n, len |-> n]

\* The capacities a queue of the model is constructed with, and the one of
\* the queue of the listener.
QueueCapacities == {1, 2, 3}

ListenerCapacity == 2

\* Calls of push in a run of the queue alone.
MaxPushes == 4

\* A thread outside push and pop.
Outside == [pc |-> "outside", index |-> 0, next |-> 0, value |-> PacketView0]

\* prod and cons: where the producer is in push and the consumer in pop,
\* with their locals.  pushed, popped: the values of the pushes and pops
\* that returned true; refused: the pushes that returned false.
LockFreeQueue(capacity) ==
    [buffer |-> [i \in 0 .. capacity - 1 |-> PacketView0], head |-> 0, tail |-> 0,
     prod |-> Outside, cons |-> Outside,
     pushed |-> <<>>, popped |-> <<>>, refused |-> 0]

size(qu) == Cardinality(DOMAIN qu.buffer)

\* A test that never finds the queue full.
Full_Never(next_tail, head) == FALSE

\* Lines 15 and 25.
Full(next_tail, head) == next_tail = head

Empty(head, tail) == head = tail

\* A whole call of push by the producer while the consumer is outside pop.
push(qu, value) ==
    LET tail == qu.tail
        next_tail == (tail + 1) % size(qu)
    IN  IF Full(next_tail, qu.head) THEN [queue |-> qu, ret |-> FALSE]
        ELSE [queue |-> [qu EXCEPT !.buffer[tail] = value, !.tail = next_tail],
              ret |-> TRUE]

\* A whole call of pop by the consumer while the producer is outside push.
pop(qu) ==
    LET head == qu.head
    IN  IF Empty(head, qu.tail)
        THEN [queue |-> qu, ret |-> FALSE, value |-> PacketView0]
        ELSE [queue |-> [qu EXCEPT !.head = (head + 1) % size(qu)],
              ret |-> TRUE, value |-> qu.buffer[head]]

\* recvmmsg fills at most this many slots of the ring in one call (BATCH
\* is 16 in the source).
MaxBatch == 2

\* Datagrams received in a run of the listener.
MaxDatagrams == 4

\* The consumer of the views, as Arbiter::next_message is for one feed.
\* pc: "load" (in load_feed_messages, about to pop), "split" (pkt popped,
\* about to read its bytes), "pick" (about to take the front of buf);
\* a view is held with the datagram it was enqueued for; picks: selections
\* made in this call; read: the last read of a view's bytes, with the
\* datagram whose bytes the slot held then.
Consumer0 == [pc |-> "load", pkt |-> <<>>, buf |-> <<>>, picks |-> 0, read |-> <<>>]

\* run: where the thread of th_ is ("none": there is no thread); failed:
\* the startup call of run() that failed; caller: where the thread that
\* calls start() and stop() is; last: its last call that returned, with
\* the result of start(); terminated: std::terminate was called.
\* ring: the datagram whose bytes each slot of ring_ holds, the datagrams
\* being numbered as they are received (0: none yet); dgrams: how many were
\* received; sent: for each view in queue_, oldest first, the datagram it
\* was enqueued for; dropped: the views the full queue refused.  con: the thread that consumes the views.
FeedListener0 ==
    [running |-> FALSE, joinable |-> FALSE, run |-> "none", failed |-> "none",
     ring_idx |-> 0, caller |-> "outside", last |-> "none", started |-> FALSE,
     terminated |-> FALSE,
     ring |-> [i \in 0 .. ListenerCapacity - 1 |-> 0], dgrams |-> 0, sent |-> <<>>,
     dropped |-> 0,
     con |-> Consumer0]

NetStart == lst = FeedListener0 /\ queue = LockFreeQueue(ListenerCapacity)

\* The listener once start() has returned and run() has reached its
\* receive loop.
ListenerRunning ==
    [FeedListener0 EXCEPT !.running = TRUE, !.joinable = TRUE, !.run = "loop",
                          !.last = "start", !.started = TRUE]

RingStart == lst = ListenerRunning /\ queue = LockFreeQueue(ListenerCapacity)

\* A queue alone, of one of the capacities.
QueueStart ==
    lst = FeedListener0 /\ queue \in {LockFreeQueue(c) : c \in QueueCapacities}

---------------------------------------------------------------------------
(* Operations on one UltraOrderBook                                        *)

tvars == <<tbl, tbl_live>>

uvars == <<ultra, uref>>

ovars == <<opt, g_order_pool, oref>>

avars == <<arb, feedA, feedB, now, hist, wire>>

dvars == <<symtab, dec, syms>>

\* The FeedListener and the LockFreeQueue.
nvars == <<lst, queue>>

vars == <<ultra, uref, tbl, tbl_live, opt, g_order_pool, oref,
          arb, feedA, feedB, now, hist, wire, symtab, dec, syms, lst, queue>>

\* What the operations of one component leave alone.
NotUltra == <<tvars, ovars, avars, dvars, nvars>>

NotOpt == <<uvars, tvars, avars, dvars, nvars>>

NotTable == <<uvars, ovars, avars, dvars, nvars>>

NotArb == <<uvars, tvars, ovars, dvars, nvars>>

NotDecoder == <<uvars, tvars, ovars, avars, nvars>>

\* The state after construction, one part for each component.
UltraStart == ultra = UltraOrderBook0 /\ uref = <<>>

TableStart == tbl = <<>> /\ tbl_live = <<>>

OptStart ==
    opt = OptimizedOrderBook0 /\ g_order_pool = OrderPool0 /\ oref = <<>>

DecoderStart == symtab = SymbolTable0 /\ dec = NoDecode /\ syms = NoIntern(0)

\* A table that has been in use.
SymbolsStart ==
    /\ syms \in {NoIntern(n) : n \in Filled}
    /\ symtab = SymbolTableAfter(syms.filled)
    /\ dec = NoDecode

NoWire == [A |-> <<>>, B |-> <<>>]

\* One message to the packet, in this order.
Singly(tns) == [i \in 1 .. Len(tns) |-> <<Msg(tns[i])>>]

\* Scenario 5 and scenario 6 of the specification's arbiter scenarios.
Scenario5 == [A |-> Singly(<<1, 2, 4, 5>>), B |-> Singly(<<1, 2, 3, 4, 5>>)]

Scenario6 == [A |-> Singly(<<1, 3>>), B |-> <<>>]

\* Both feeds run ahead with 2; 1 follows on B.
TwiceAhead == [A |-> Singly(<<2>>), B |-> Singly(<<2, 1>>)]

Scenarios == {Scenario5, Scenario6, TwiceAhead}

\* Nothing sent, nothing taken, nothing returned; script is what the feeds
\* are going to be sent (NoWire: anything).
History0(script) ==
    [packets |-> 0, offered |-> {}, out |-> <<>>, taken |-> {}, script |-> script]

\* The arbiter of main.cpp, with the default gap_capacity.
ArbStart ==
    /\ arb = Arbiter0
    /\ feedA = <<>> /\ feedB = <<>> /\ now = 0
    /\ hist = History0(NoWire)
    /\ wire = NoWire

\* An arbiter constructed with one of the capacities of the model.
ArbSizedStart ==
    /\ arb \in {Arbiter(c) : c \in GapCapacities}
    /\ feedA = <<>> /\ feedB = <<>> /\ now = 0
    /\ hist = History0(NoWire)
    /\ wire = NoWire

\* An arbiter that is to receive one of the scenarios.
ArbScriptedStart ==
    /\ arb \in {Arbiter(c) : c \in {0, 1, DefaultGapCapacity}}
    /\ feedA = <<>> /\ feedB = <<>> /\ now = 0
    /\ wire \in Scenarios
    /\ hist = History0(wire)

\* The arbiter after the messages 1 .. n have come in order, one to the
\* packet, and have been returned: nothing was buffered or dropped.
ArbiterAfter(gap_capacity, n) == [Arbiter(gap_capacity) EXCEPT !.expected = n + 1]

\* The stream around the wrap of the 16-bit tracking number: feed A carries
\* it whole, feed B the last message before the wrap.
WrapStream ==
    [A |-> Singly(<<U16 - 2, U16 - 1, 0, 1, 2>>), B |-> Singly(<<U16 - 1>>)]

\* An arbiter, two messages before the wrap, that is to receive WrapStream.
ArbWrapStart ==
    /\ arb \in {ArbiterAfter(c, U16 - 3) : c \in {0, DefaultGapCapacity}}
    /\ feedA = <<>> /\ feedB = <<>> /\ now = 0
    /\ wire = WrapStream
    /\ hist = History0(wire)

\* The model follows an order_count up to the pool's capacity and down to
\* MaxUnderflow below zero.
CountsInBound(b) ==
    \A i \in LevelIdx : \A lv \in {b.bid_levels[i], b.ask_levels[i]} :
        lv.order_count <= b.capacity + 1 \/ lv.order_count >= U16 - MaxUnderflow

PoolLeft(b) == b.stack_top < b.capacity

\* in.track: whether the step also follows the resting orders in uref.
UltraAdd(in) ==
    \E id \in in.ids, side \in Sides, q \in in.quantities, p \in in.prices :
        /\ ultra' = ultra_addOrder(ultra, id, side, q, p)
        /\ uref' = IF in.track
                   THEN RefAdd(uref, PoolLeft(ultra), id, side, q, p)
                   ELSE uref
        /\ UNCHANGED NotUltra

UltraExecute(in) ==
    \E id \in in.ids, q \in in.executed :
        /\ ultra' = ultra_executeOrder(ultra, id, q)
        /\ CountsInBound(ultra')
        /\ uref' = IF in.track THEN RefExecute(uref, id, q) ELSE uref
        /\ UNCHANGED NotUltra

UltraDelete(in) ==
    \E id \in in.ids :
        /\ ultra' = ultra_deleteOrder(ultra, id)
        /\ CountsInBound(ultra')
        /\ uref' = IF in.track THEN RefDelete(uref, id) ELSE uref
        /\ UNCHANGED NotUltra

UltraReplace(in) ==
    \E oldId \in in.ids, newId \in in.ids, q \in in.quantities, p \in in.prices :
        /\ ultra' = ultra_replaceOrder(ultra, oldId, newId, q, p)
        /\ CountsInBound(ultra')
        /\ uref' = IF in.track
                   THEN RefReplace(uref, PoolLeft(ultra), oldId, newId, q, p)
                   ELSE uref
        /\ UNCHANGED NotUltra

\* Every component zeroed: the book is value-initialised, as by
\* std::make_unique<UltraOrderBook>().
Init == UltraStart /\ TableStart /\ OptStart /\ ArbStart /\ DecoderStart /\ NetStart

\* The book is default-initialised, as by "OB ob;": UltraOrderBook declares
\* no constructor and UltraPriceLevel no initialisers, so the two level
\* arrays hold whatever the storage held (zeroes included).
InitDefault ==
    /\ ultra \in UltraDefaultInit /\ uref = <<>>
    /\ TableStart /\ OptStart /\ ArbStart /\ DecoderStart /\ NetStart

UltraNext ==
    \/ UltraAdd(SmallInputs)
    \/ UltraExecute(SmallInputs)
    \/ UltraDelete(SmallInputs)
    \/ UltraReplace(SmallInputs)

UltraRefNext ==
    \/ UltraAdd(RefInputs)
    \/ UltraExecute(RefInputs)
    \/ UltraDelete(RefInputs)
    \/ UltraReplace(RefInputs)

UltraWideNext ==
    \/ UltraAdd(WideInputs)
    \/ UltraExecute(WideInputs)
    \/ UltraDelete(WideInputs)
    \/ UltraReplace(WideInputs)

UltraResetPool ==
    /\ ultra' = reset_pool(ultra)
    /\ UNCHANGED <<uref, NotUltra>>

\* The operations of BM_Ultra_Mixed_Operations.
UltraResetNext ==
    \/ UltraAdd(BothInputs)
    \/ UltraExecute(BothInputs)
    \/ UltraResetPool

\* The book with reset_pool among its operations.
SpecUltraReset == Init /\ [][UltraResetNext]_vars

UltraCrowdedNext ==
    \/ UltraAdd(CrowdedInputs)
    \/ UltraExecute(CrowdedInputs)
    \/ UltraDelete(CrowdedInputs)
    \/ UltraReplace(CrowdedInputs)

InitCrowded ==
    /\ ultra = CrowdedBook /\ uref = <<>>
    /\ TableStart /\ OptStart /\ ArbStart /\ DecoderStart /\ NetStart

\* The book in which 63 orders rest in the slots 0 .. 62 of the hash table.
SpecUltraCrowded == InitCrowded /\ [][UltraCrowdedNext]_vars

\* The default-initialised book alone, on two colliding ids and two price
\* levels.
SpecUltra == InitDefault /\ [][UltraNext]_vars

\* The book with the resting orders followed in uref.
SpecUltraRef == Init /\ [][UltraRefNext]_vars

\* The book alone, on two colliding ids and two price levels, with orders of
\* 2^30 and 2^31 shares.
SpecUltraWide == Init /\ [][UltraWideNext]_vars

---------------------------------------------------------------------------
(* Operations on one OptimizedOrderBook                                    *)

OptWorld == [book |-> opt, pool |-> g_order_pool]

OptStep(w) == opt' = w.book /\ g_order_pool' = w.pool

\* The specification adds orders until the pool index reaches the end of
\* the storage, where acquire_order starts over at slot 0.
OptAdd(in) ==
    \E id \in in.ids, side \in Sides, q \in in.quantities, p \in in.prices :
        /\ g_order_pool.index < OrderPoolSize
        /\ OptStep(addOrder(OptWorld, id, side, q, p))
        /\ oref' = RefAdd(oref, TRUE, id, side, q, p)
        /\ UNCHANGED NotOpt

OptExecute(in) ==
    \E id \in in.ids, q \in in.executed :
        /\ OptStep(executeOrder(OptWorld, id, q))
        /\ oref' = RefExecute(oref, id, q)
        /\ UNCHANGED NotOpt

OptDelete(in) ==
    \E id \in in.ids :
        /\ OptStep(deleteOrder(OptWorld, id))
        /\ oref' = RefDelete(oref, id)
        /\ UNCHANGED NotOpt

OptReplace(in) ==
    \E oldId \in in.ids, newId \in in.ids, q \in in.quantities, p \in in.prices :
        /\ OptStep(replaceOrder(OptWorld, oldId, newId, q, p))
        /\ oref' = RefReplace(oref, TRUE, oldId, newId, q, p)
        /\ UNCHANGED NotOpt

OptNext ==
    \/ OptAdd(OptInputs)
    \/ OptExecute(OptInputs)
    \/ OptDelete(OptInputs)
    \/ OptReplace(OptInputs)

\* One OptimizedOrderBook with the resting orders followed in oref.
SpecOpt == Init /\ [][OptNext]_vars

---------------------------------------------------------------------------
(* The UltraHashTable alone                                                *)

\* The order pointers the table is given.
TableOrders == {1, 2}

TableInsert ==
    \E id \in TableIds, order \in TableOrders :
        /\ tbl' = ultra_insert(tbl, id, order)
        /\ tbl_live' = [x \in DOMAIN tbl_live \cup {id} |->
                            IF x = id THEN order ELSE tbl_live[x]]
        /\ UNCHANGED NotTable

TableRemove ==
    \E id \in TableIds :
        /\ tbl' = ultra_remove(tbl, id)
        /\ tbl_live' = [x \in DOMAIN tbl_live \ {id} |-> tbl_live[x]]
        /\ UNCHANGED NotTable

TableNext == TableInsert \/ TableRemove

SpecTable == Init /\ [][TableNext]_vars

---------------------------------------------------------------------------
(* Operations on one Arbiter and its two feeds                             *)

\* A packet arrives on a feed and waits for the arbiter to pop it.
FeedArrive ==
    \E p \in Packets, onA \in BOOLEAN :
        /\ hist.packets < MaxPackets
        /\ feedA' = IF onA THEN Append(feedA, p) ELSE feedA
        /\ feedB' = IF onA THEN feedB ELSE Append(feedB, p)
        /\ hist' = [hist EXCEPT !.packets = @ + 1,
                                !.offered = @ \cup {p[i] : i \in 1 .. Len(p)}]
        /\ UNCHANGED <<arb, now, wire, NotArb>>

\* The messages a call took from the buffer of each feed, as <<feed, tn>>:
\* what was loaded and is no longer in the buffer.
TakenFrom(feed, loaded, left) ==
    {<<feed, tracking_number_from(loaded[i])>> : i \in 1 .. Len(loaded) - Len(left)}

Taken(a, r, popA, popB) ==
    IF r.staged THEN {}
    ELSE TakenFrom("A", load_feed_messages(popA, a.bufA), r.arb.bufA)
             \cup TakenFrom("B", load_feed_messages(popB, a.bufB), r.arb.bufB)

\* One call of next_message.  Where the call is undefined, it either goes on
\* as if the erase had done nothing, or the process stops in it.
ArbNextMessage ==
    LET r == next_message(arb, feedA, feedB, now)
    IN  /\ ~arb.stopped
        /\ \E stops \in (IF r.ub THEN BOOLEAN ELSE {FALSE}) :
            IF stops
            THEN /\ arb' = [arb EXCEPT !.stopped = TRUE]
                 /\ UNCHANGED <<feedA, feedB, hist>>
            ELSE /\ arb' = r.arb
                 /\ feedA' = r.popA
                 /\ feedB' = r.popB
                 /\ hist' = [hist EXCEPT
                        !.out = IF r.ret = <<>> THEN @
                                ELSE Append(@, [tn |-> tracking_number_from(r.ret[1]),
                                                staged |-> r.staged,
                                                expected |-> arb.expected]),
                        !.taken = IF hist.script = NoWire THEN @
                                  ELSE @ \cup Taken(arb, r, feedA, feedB)]
        /\ UNCHANGED <<now, wire, NotArb>>

\* A packet of the scenario arrives on its feed.
WireDeliver ==
    \E f \in {"A", "B"} :
        /\ wire[f] # <<>>
        /\ LET p == Head(wire[f])
           IN  /\ feedA' = IF f = "A" THEN Append(feedA, p) ELSE feedA
               /\ feedB' = IF f = "B" THEN Append(feedB, p) ELSE feedB
               /\ hist' = [hist EXCEPT !.packets = @ + 1,
                                       !.offered = @ \cup {p[i] : i \in 1 .. Len(p)}]
        /\ wire' = [wire EXCEPT ![f] = Tail(@)]
        /\ UNCHANGED <<arb, now, NotArb>>

\* The clock is followed while an entry of the gap buffer can still age:
\* the code reads the clock only to stamp an entry and to take its age, so
\* a tick with nothing left to age changes nothing it can see.
ClockTick ==
    /\ now < MaxTime
    /\ \E k \in DOMAIN arb.gap : now - arb.gap[k].ts <= TtlTicks
    /\ now' = now + 1
    /\ UNCHANGED <<arb, feedA, feedB, hist, wire, NotArb>>

ArbNext == FeedArrive \/ ArbNextMessage \/ ClockTick

InitArb ==
    UltraStart /\ TableStart /\ OptStart /\ ArbSizedStart /\ DecoderStart /\ NetStart

SpecArb == InitArb /\ [][ArbNext]_vars

InitScripted ==
    UltraStart /\ TableStart /\ OptStart /\ ArbScriptedStart /\ DecoderStart /\ NetStart

ArbScriptedNext == WireDeliver \/ ArbNextMessage \/ ClockTick

\* The arbiter on the scenarios, in every interleaving of arrivals, calls
\* and ticks.
SpecArbScripted == InitScripted /\ [][ArbScriptedNext]_vars

InitWrap ==
    UltraStart /\ TableStart /\ OptStart /\ ArbWrapStart /\ DecoderStart /\ NetStart

\* The arbiter on the stream that wraps, in every interleaving of arrivals,
\* calls and ticks.
SpecArbWrap == InitWrap /\ [][ArbScriptedNext]_vars

---------------------------------------------------------------------------
(* Claims about the Arbiter                                                *)

Returned == hist.out

\* The returned messages that carry a tracking number (tn 0 is forwarded
\* as it comes, outside the sequence).
Sequenced == {i \in 1 .. Len(Returned) : Returned[i].tn # 0}

Provenance(m) ==
    \/ ~m.staged /\ m.tn = m.expected
    \/ m.staged /\ m.tn < m.expected

\* C1 (as stated): the tracking numbers of the returned messages, in return
\* order, are non-decreasing, no value is returned twice, and each returned
\* message either equalled expected when it was taken from a feed or was
\* served from the gap buffer after expected had passed it.
C1_ReturnedInOrderOnce ==
    /\ \A i, j \in 1 .. Len(Returned) :
           i < j => /\ Returned[i].tn <= Returned[j].tn
                    /\ Returned[i].tn # Returned[j].tn
    /\ \A i \in 1 .. Len(Returned) : Provenance(Returned[i])

\* C1 (amended): the same, of the returned messages whose tracking number
\* is not 0; a message with tracking number 0 is returned as it is taken
\* from its feed, whatever came before it.
C1_SequencedInOrderOnce ==
    /\ \A i, j \in Sequenced :
           i < j => /\ Returned[i].tn <= Returned[j].tn
                    /\ Returned[i].tn # Returned[j].tn
    /\ \A i \in Sequenced : Provenance(Returned[i])

\* One message came straight from a feed, a later one from the gap buffer,
\* and a message with tracking number 0 went by.
C1_Witness ==
    /\ \E i, j \in Sequenced :
           i < j /\ ~Returned[i].staged /\ Returned[j].staged
    /\ \E i \in 1 .. Len(Returned) : Returned[i].tn = 0

\* Nothing is left for next_message to deliver.
Drained ==
    /\ feedA = <<>> /\ feedB = <<>>
    /\ arb.bufA = <<>> /\ arb.bufB = <<>> /\ arb.ready = <<>>

\* The feeds were sent the messages 1..n, whole, and nothing else.
Offered(n) == hist.offered = {Msg(tn) : tn \in 1 .. n}

UpTo(n) == [i \in 1 .. n |-> i]

ReturnedNumbers == [i \in 1 .. Len(Returned) |-> Returned[i].tn]

\* C2 (as stated): when the messages 1..n are spread over the two feeds,
\* each on at least one of them, and none waits in the gap buffer beyond
\* the TTL, then calling next_message until nothing is left returns
\* 1, 2, ..., n, each once and in increasing order.
C2_AllDeliveredInOrder ==
    \A n \in TrackingNumbers \ {0} :
        Drained /\ Offered(n) /\ arb.metrics.gap_dropped_ttl = 0
            => ReturnedNumbers = UpTo(n)

\* C2 (amended): the same, when moreover the gap buffer never has to hold
\* more than gap_capacity messages, so that none is evicted.
C2_AllDeliveredInOrderWithinCapacity ==
    \A n \in TrackingNumbers \ {0} :
        (/\ Drained /\ Offered(n)
         /\ arb.metrics.gap_dropped_ttl = 0
         /\ arb.metrics.gap_dropped_capacity = 0)
            => ReturnedNumbers = UpTo(n)

\* Both feeds carried 1..n, one message waited in the gap buffer and was
\* delivered from it, a duplicate was dropped, and all has been returned.
C2_Witness ==
    /\ Drained /\ \E n \in TrackingNumbers \ {0, 1} : Offered(n)
    /\ arb.metrics.gap_dropped_ttl = 0
    /\ arb.metrics.gap_dropped_capacity = 0
    /\ arb.metrics.gap_filled > 0
    /\ arb.metrics.dup_dropped > 0

\* The tracking numbers of the messages staged in ready_.
ReadyNumbers == [i \in 1 .. Len(arb.ready) |-> tracking_number_from(arb.ready[i])]

Consecutive(from, k) == [i \in 1 .. k |-> from + i - 1]

\* A call in which the message e = expected closed a gap: it returned e and
\* left the k drained messages e+1 .. e+k staged, in this order.
ClosesGap ==
    LET k == arb'.metrics.gap_filled - arb.metrics.gap_filled
    IN  k > 0 =>
            /\ arb.ready = <<>>
            /\ hist'.out = Append(hist.out, [tn |-> arb.expected, staged |-> FALSE,
                                             expected |-> arb.expected])
            /\ ReadyNumbers' = Consecutive(arb.expected + 1, k)
            /\ arb'.expected = arb.expected + 1 + k

\* A call made while messages are staged returns the first of them and
\* takes nothing from the feeds, whatever waits there.
ServesStaged ==
    (arb.ready # <<>> /\ arb' # arb /\ ~arb'.stopped) =>
        /\ hist'.out = Append(hist.out, [tn |-> ReadyNumbers[1], staged |-> TRUE,
                                         expected |-> arb.expected])
        /\ arb'.ready = Tail(arb.ready)
        /\ arb'.expected = arb.expected
        /\ UNCHANGED <<feedA, feedB>>
        /\ arb'.bufA = arb.bufA /\ arb'.bufB = arb.bufB

\* C11: when an in-order message e closes a gap and the entries e+1 .. e+k
\* are drained, that call returns e and the next k calls return
\* e+1, ..., e+k in order, before any message still waiting in a feed.
C11_DrainedReturnedNext == [][ClosesGap /\ ServesStaged]_vars

\* 1 closed the gap before 2 and 3, which were then returned from ready_
\* while another packet was waiting in a feed.
C11_Witness ==
    /\ \E i \in 1 .. Len(Returned) - 2 :
           /\ ~Returned[i].staged /\ Returned[i].tn = Returned[i].expected
           /\ Returned[i + 1].staged /\ Returned[i + 1].tn = Returned[i].tn + 1
           /\ Returned[i + 2].staged /\ Returned[i + 2].tn = Returned[i].tn + 2
    /\ arb.ready = <<>>
    /\ feedA # <<>> \/ feedB # <<>>

\* The arbiter as a call made now finds it when ready_ is empty: the gap
\* buffer pruned, the feeds loaded into the buffers.
Loaded ==
    [prune_expired(arb, now) EXCEPT !.bufA = load_feed_messages(feedA, @),
                                    !.bufB = load_feed_messages(feedB, @)]

\* The message pick_next takes first from the loaded buffers, with its
\* feed: <<>> when there is none.
FirstTaken ==
    LET a == Loaded
        r == pick_next(a, "bufA", "bufB", now)
    IN  IF a.ready # <<>> THEN <<>>
        ELSE IF r.arb.bufA # a.bufA
             THEN <<[feed |-> "A", other |-> "B", tn |-> tracking_number_from(Head(a.bufA))]>>
        ELSE IF r.arb.bufB # a.bufB
             THEN <<[feed |-> "B", other |-> "A", tn |-> tracking_number_from(Head(a.bufB))]>>
        ELSE <<>>

\* tn was returned, or waits in ready_ to be.
Emitted(a, tn) ==
    \/ \E i \in 1 .. Len(Returned) : Returned[i].tn = tn
    \/ \E i \in 1 .. Len(a.ready) : tracking_number_from(a.ready[i]) = tn

\* C12: when the arbiter takes a message whose tracking number already
\* arrived on the other feed (already emitted, or already held in the gap
\* buffer), the second copy is not emitted and dup_dropped grows by one.
C12_SecondCopyCountedAsDuplicate ==
    \A m \in {FirstTaken[i] : i \in DOMAIN FirstTaken} :
        LET a == Loaded
            r == pick_next(a, "bufA", "bufB", now)
        IN  (/\ m.tn # 0
             /\ <<m.other, m.tn>> \in hist.taken
             /\ Emitted(a, m.tn) \/ m.tn \in DOMAIN a.gap)
                => /\ r.ret = <<>>
                   /\ r.arb.metrics.dup_dropped = a.metrics.dup_dropped + 1

\* The scenario was sent whole and nothing is left to deliver.
Finished(script) == hist.script = script /\ wire = NoWire /\ Drained

\* C13 (as stated): when feed A delivers 1, 2, 4, 5 and feed B delivers
\* 1, 2, 3, 4, 5, then in every interleaving of arrivals and calls the
\* output is 1, 2, 3, 4, 5 and the final metrics have gap_detected >= 1,
\* gap_filled = 1 and dup_dropped >= 2.
C13_Scenario5Metrics ==
    Finished(Scenario5) =>
        /\ ReturnedNumbers = UpTo(5)
        /\ arb.metrics.gap_detected >= 1
        /\ arb.metrics.gap_filled = 1
        /\ arb.metrics.dup_dropped >= 2

\* C13 (amended): the output is 1, 2, 3, 4, 5 and dup_dropped >= 2 in every
\* interleaving; a gap is detected only for a 4 or 5 of feed A that is
\* taken before the 3 of feed B, so gap_filled <= gap_detected <= 2, and
\* each of A's messages is counted once: as a duplicate, or as a gap that
\* was not filled back (dup_dropped + gap_detected - gap_filled = 4).
C13_Scenario5Output ==
    Finished(Scenario5) =>
        /\ ReturnedNumbers = UpTo(5)
        /\ arb.metrics.dup_dropped >= 2
        /\ arb.metrics.gap_filled <= arb.metrics.gap_detected
        /\ arb.metrics.gap_detected <= 2
        /\ arb.metrics.dup_dropped + arb.metrics.gap_detected
               - arb.metrics.gap_filled = 4

\* Scenario 5 ran to its end without feed A ever running ahead of feed B:
\* no gap was detected and all four of A's messages were duplicates.
C13_Witness ==
    /\ Finished(Scenario5)
    /\ arb.metrics.gap_detected = 0
    /\ arb.metrics.dup_dropped = 4

\* Pruning, at any reading of the clock, leaves expected, ready_ and the
\* buffers as they are.
PruneOnlyDrops ==
    \A clock \in now .. MaxTime :
        LET p == prune_expired(arb, clock)
        IN  /\ p.expected = arb.expected
            /\ p.ready = arb.ready
            /\ p.bufA = arb.bufA /\ p.bufB = arb.bufB

\* A message that makes the full gap buffer evict returns nothing and
\* leaves expected and ready_ as they are.
EvictOnlyDrops ==
    LET a == Loaded
        r == pick_next(a, "bufA", "bufB", now)
    IN  r.arb.metrics.gap_dropped_capacity > a.metrics.gap_dropped_capacity
            => /\ r.ret = <<>>
               /\ r.arb.expected = a.expected
               /\ r.arb.ready = a.ready

\* expected grows by one for the message returned straight from a feed
\* with the expected tracking number and by one for each drained message,
\* and by nothing else; at most one message is returned in a step.
ExpectedAdvance ==
    LET inOrder == IF /\ hist'.out # hist.out
                      /\ ~hist'.out[Len(hist'.out)].staged
                      /\ hist'.out[Len(hist'.out)].tn = arb.expected
                   THEN 1 ELSE 0
    IN  /\ arb'.expected = arb.expected + inOrder
                               + (arb'.metrics.gap_filled - arb.metrics.gap_filled)
        /\ \/ hist'.out = hist.out
           \/ Len(hist'.out) = Len(hist.out) + 1

\* Scenario 6, once the buffered 3 has been dropped.
Scenario6Outcome ==
    (Finished(Scenario6) /\ arb.gap = <<>>) =>
        /\ ReturnedNumbers = <<1>>
        /\ arb.expected = 2
        /\ arb.metrics.gap_detected = 1
        /\ arb.metrics.gap_dropped_ttl = 1

\* C14: dropping a gap entry, by TTL or by capacity, never changes
\* expected and never emits anything; expected advances only when a
\* message with tn = expected is taken from a feed or drained.  When feed A
\* delivers 1 and then 3, feed B nothing, and more than the TTL goes by,
\* the output is exactly 1, expected stays 2, gap_detected = 1 and
\* gap_dropped_ttl = 1.
C14_DropsKeepExpected ==
    /\ [](PruneOnlyDrops /\ EvictOnlyDrops /\ Scenario6Outcome)
    /\ [][ExpectedAdvance]_vars

\* Scenario 6 at its end: 1 was returned, 3 waited and was dropped.
C14_Witness ==
    /\ Finished(Scenario6) /\ arb.gap = <<>>
    /\ arb.metrics.gap_dropped_ttl = 1
    /\ Len(Returned) = 1

\* C15: for any configured gap_capacity and any input, the gap buffer
\* never holds more than gap_capacity entries.
C15_GapWithinCapacity == Cardinality(DOMAIN arb.gap) <= arb.gap_capacity

\* C28: immediately after the prune step of any next_message call, the
\* gap buffer holds no entry whose age exceeds the TTL, whatever the order
\* in which the buffered tracking numbers arrived, and gap_dropped_ttl has
\* grown by exactly the number of entries removed.
C28_PruneLeavesNoExpired ==
    LET p == prune_expired(arb, now)
    IN  /\ \A k \in DOMAIN p.gap : now - p.gap[k].ts <= TtlTicks
        /\ p.metrics.gap_dropped_ttl - arb.metrics.gap_dropped_ttl
               = Cardinality(DOMAIN arb.gap) - Cardinality(DOMAIN p.gap)

\* The entries of the gap buffer that arrived first.
Oldest(gap) == {k \in DOMAIN gap : \A j \in DOMAIN gap : gap[k].ts <= gap[j].ts}

\* C29: when a message with a tracking number beyond expected arrives
\* while the gap buffer holds gap_capacity entries, the entry removed is
\* the oldest one (the one that arrived first), exactly one entry is
\* removed, and gap_dropped_capacity grows by one.
C29_EvictsOldest ==
    \A m \in {FirstTaken[i] : i \in DOMAIN FirstTaken} :
        LET a == Loaded
            r == pick_next(a, "bufA", "bufB", now)
        IN  (/\ m.tn > a.expected
             /\ DOMAIN a.gap # {}
             /\ Cardinality(DOMAIN a.gap) = a.gap_capacity)
                => /\ r.arb.metrics.gap_dropped_capacity
                          = a.metrics.gap_dropped_capacity + 1
                   /\ \E k \in Oldest(a.gap) :
                          /\ DOMAIN r.arb.gap = (DOMAIN a.gap \ {k}) \cup {m.tn}
                          /\ \A j \in DOMAIN a.gap \ {k, m.tn} :
                                 r.arb.gap[j] = a.gap[j]

\* C30: a call of next_message returns empty only when both feeds are
\* exhausted: if it returns empty, ready_ is empty and neither per-feed
\* buffer holds a message; duplicates and gap messages are skipped within
\* the call until a message is returned or both feeds are exhausted.
C30_EmptyOnlyWhenExhausted ==
    LET r == next_message(arb, feedA, feedB, now)
    IN  (~arb.stopped /\ ~r.ub /\ r.ret = <<>>)
            => r.arb.ready = <<>> /\ r.arb.bufA = <<>> /\ r.arb.bufB = <<>>

\* The selection that led from a to r.arb took the front of bufA when both
\* buffers held a message and the two fronts carried one tracking number.
TieTakesA(a, r) ==
    (/\ a.bufA # <<>> /\ a.bufB # <<>>
     /\ tracking_number_from(Head(a.bufA)) = tracking_number_from(Head(a.bufB)))
        => r.arb.bufA = Tail(a.bufA) /\ r.arb.bufB = a.bufB

\* The first selection of a call, pick_next(bufA_, bufB_), alone.
FirstSelectionPrefersA ==
    LET a == Loaded
    IN  a.ready = <<>> => TieTakesA(a, pick_next(a, "bufA", "bufB", now))

\* C31: whenever both per-feed buffers are non-empty and their front
\* messages carry the same tracking number, the message the arbiter takes
\* next is the one from feed A, on every selection made inside
\* next_message: the first, and the second made when the first returned
\* nothing (in a call whose behaviour is defined).
C31_TiePrefersA ==
    LET a == Loaded
        m1 == pick_next(a, "bufA", "bufB", now)
        m2 == pick_next(m1.arb, "bufB", "bufA", now)
    IN  a.ready = <<>> =>
            /\ TieTakesA(a, m1)
            /\ (m1.ret = <<>> /\ ~m1.ub) => TieTakesA(m1.arb, m2)

\* C36: in every reachable Arbiter state, every tracking number held in
\* the gap buffer is strictly greater than expected, and every message
\* waiting in ready has a tracking number smaller than expected, with ready
\* ordered by increasing tracking number.
C36_GapAheadReadyBehind ==
    /\ \A k \in DOMAIN arb.gap :
           k > arb.expected /\ tracking_number_from(arb.gap[k].pkt) = k
    /\ \A i \in 1 .. Len(arb.ready) : ReadyNumbers[i] < arb.expected
    /\ \A i, j \in 1 .. Len(arb.ready) : i < j => ReadyNumbers[i] < ReadyNumbers[j]

\* 1 has just closed the gap before 2 and 3: both wait in ready_, behind
\* expected, after having waited in the gap buffer, ahead of it.
C36_Witness ==
    /\ ReadyNumbers = <<2, 3>>
    /\ arb.expected = 4
    /\ arb.metrics.gap_detected >= 2
    /\ arb.metrics.gap_filled = 2

\* The gap entries the counters account for: those filled back, dropped by
\* TTL or by capacity, and those still buffered.
GapAccounted(a) ==
    a.metrics.gap_filled + a.metrics.gap_dropped_ttl
        + a.metrics.gap_dropped_capacity + Cardinality(DOMAIN a.gap)

\* C37: the arbiter's counters account for every gap-buffer entry: in every
\* reachable state gap_detected = gap_filled + gap_dropped_ttl +
\* gap_dropped_capacity + (number of entries in the gap buffer), including
\* when the same future tracking number arrives on both feeds (of an
\* arbiter constructed with a gap_capacity of at least 1, whose calls are
\* all defined).
C37_CountersAccountForGap ==
    arb.gap_capacity > 0 => arb.metrics.gap_detected = GapAccounted(arb)

\* gap_detected is never below what the other counters account for.
GapNeverUndercounted ==
    arb.gap_capacity > 0 => arb.metrics.gap_detected >= GapAccounted(arb)

\* C38: sequenced delivery continues across the wrap of the 16-bit
\* tracking number: after the message with tracking number 65535 has been
\* emitted (expected becomes 65536), the following messages of the stream,
\* whose tracking numbers restart, are still emitted in stream order rather
\* than dropped as duplicates (by an arbiter whose calls are all defined).
C38_DeliveryContinuesAcrossWrap ==
    (Finished(WrapStream) /\ arb.gap_capacity > 0) => ReturnedNumbers = <<U16 - 2, U16 - 1, 0, 1, 2>>

\* What the stream that wraps does end in: the messages up to 65535 are
\* returned, the message 0 is forwarded, and what follows is counted as
\* duplicates.
WrapOutcome ==
    (Finished(WrapStream) /\ ~arb.stopped) =>
        /\ ReturnedNumbers = <<U16 - 2, U16 - 1, 0>>
        /\ arb.expected = U16
        /\ arb.metrics.dup_dropped >= 2

---------------------------------------------------------------------------
(* Claims about the crowded UltraOrderBook                                 *)

\* None of the 64 probes for id reads an empty slot, a tombstone or id.
ProbeBoundExceeded(b, id) ==
    \A i \in 0 .. ProbeLimit - 1 :
        Probed(b.order_hash, HashOf[id], i) \notin {0, TOMBSTONE, id}

\* The slots of the index that hold a resting id.
RestingSlots(b) ==
    {s \in DOMAIN b.order_hash : b.order_hash[s].order_id \notin {0, TOMBSTONE}}

LevelsKept(b, r) == r.bid_levels = b.bid_levels /\ r.ask_levels = b.ask_levels

NotIndexed(r, id) == ultra_find(r.order_hash, id) = NULL

OthersKept(b, r) == \A s \in RestingSlots(b) : r.order_hash[s] = b.order_hash[s]

\* C32: when the index cannot place a new id because the probe bound of 64
\* is exceeded (no empty slot and no tombstone within 64 probes), the Add
\* is silently dropped: no level's total_quantity or order_count changes,
\* the new id is not indexed, and the index entry of every other resting id
\* is unchanged.
C32_ProbeBoundDropsAdd ==
    \A id \in CrowdedInputs.ids, side \in Sides,
       q \in CrowdedInputs.quantities, p \in CrowdedInputs.prices :
        LET r == ultra_addOrder(ultra, id, side, q, p)
        IN  ProbeBoundExceeded(ultra, id) =>
                LevelsKept(ultra, r) /\ NotIndexed(r, id) /\ OthersKept(ultra, r)

---------------------------------------------------------------------------
(* Claims about reset_pool                                                 *)

\* The operations of BothInputs, as functions of the book.
UltraOps ==
    {[op |-> "add", id |-> id, side |-> sd, q |-> q, p |-> p, old |-> 0] :
        id \in BothInputs.ids, sd \in Sides,
        q \in BothInputs.quantities, p \in BothInputs.prices}
    \cup {[op |-> "execute", id |-> id, side |-> "B", q |-> q, p |-> 0, old |-> 0] :
        id \in BothInputs.ids, q \in BothInputs.executed}
    \cup {[op |-> "delete", id |-> id, side |-> "B", q |-> U32Zero, p |-> 0, old |-> 0] :
        id \in BothInputs.ids}
    \cup {[op |-> "replace", id |-> id, side |-> "B", q |-> q, p |-> p, old |-> old] :
        id \in BothInputs.ids, old \in BothInputs.ids,
        q \in BothInputs.quantities, p \in BothInputs.prices}

UltraApply(b, o) ==
    CASE o.op = "add" -> ultra_addOrder(b, o.id, o.side, o.q, o.p)
      [] o.op = "execute" -> ultra_executeOrder(b, o.id, o.q)
      [] o.op = "delete" -> ultra_deleteOrder(b, o.id)
      [] o.op = "replace" -> ultra_replaceOrder(b, o.old, o.id, o.q, o.p)

\* The level aggregates and the best prices of an UltraOrderBook.
UltraAggregates(b) ==
    [bid |-> [i \in LevelIdx |-> <<b.bid_levels[i].total_quantity,
                                   b.bid_levels[i].order_count>>],
     ask |-> [i \in LevelIdx |-> <<b.ask_levels[i].total_quantity,
                                   b.ask_levels[i].order_count>>],
     best_bid |-> ultra_getBestBid(b), best_ask |-> ultra_getBestAsk(b)]

\* C39: after reset_pool() the book is equivalent to a freshly constructed
\* one: no previously added id is found in the index, and the operations
\* that follow (ids used before the reset included) yield the same level
\* aggregates and best prices as on a new book.
C39_ResetIsNewBook ==
    LET r == reset_pool(ultra)
    IN  /\ \A id \in BothInputs.ids : ultra_find(r.order_hash, id) = NULL
        /\ UltraAggregates(r) = UltraAggregates(UltraOrderBook0)
        /\ \A o1 \in UltraOps :
               /\ UltraAggregates(UltraApply(r, o1))
                      = UltraAggregates(UltraApply(UltraOrderBook0, o1))
               /\ \A o2 \in UltraOps :
                      UltraAggregates(UltraApply(UltraApply(r, o1), o2))
                          = UltraAggregates(
                                UltraApply(UltraApply(UltraOrderBook0, o1), o2))

\* What reset_pool does restore: the level aggregates, the best prices and
\* the whole of the pool.
ResetZeroesLevels ==
    LET r == reset_pool(ultra)
    IN  UltraAggregates(r) = UltraAggregates(UltraOrderBook0) /\ r.stack_top = 0

---------------------------------------------------------------------------
(* The global order pool past its last slot                                *)

\* One id more than the pool has slots.
PoolInputs ==
    [ids |-> 1 .. (OrderPoolSize + 1), quantities |-> {U32(2)},
     executed |-> {U32(2)}, prices |-> {MAX_PRICE}]

\* Every slot of the storage has been handed out.
PoolUsedUp == g_order_pool.storage[OrderPoolSize].id # 0

\* addOrder with no bound on the pool index, until acquire_order has
\* started over once.
PoolAdd ==
    \E id \in PoolInputs.ids, side \in Sides,
       q \in PoolInputs.quantities, p \in PoolInputs.prices :
        /\ ~PoolUsedUp \/ g_order_pool.index >= OrderPoolSize
        /\ OptStep(addOrder(OptWorld, id, side, q, p))
        /\ oref' = RefAdd(oref, TRUE, id, side, q, p)
        /\ UNCHANGED NotOpt

PoolNext ==
    \/ PoolAdd
    \/ OptExecute(PoolInputs)
    \/ OptDelete(PoolInputs)

\* One OptimizedOrderBook that is given more adds than the pool has slots.
SpecPool == Init /\ [][PoolNext]_vars

\* C40: two orders that are resting at the same time never occupy the same
\* slot of the Order storage.
C40_RestingOrdersOwnTheirSlots ==
    \A a \in DOMAIN opt.order_hash, b \in DOMAIN opt.order_hash :
        a # b => opt.order_hash[a] # opt.order_hash[b]

\* The same while acquire_order has not started over.
SlotsOwnedBeforeWrap ==
    (~PoolUsedUp \/ g_order_pool.index >= OrderPoolSize)
        => C40_RestingOrdersOwnTheirSlots

---------------------------------------------------------------------------
(* Claims about OptimizedOrderBook::replaceOrder                           *)

\* The level aggregates of an OptimizedOrderBook.
OptAggregates(book) ==
    [bid |-> [i \in LevelIdx |-> <<book.bid_levels[i].quantity,
                                   book.bid_levels[i].order_count>>],
     ask |-> [i \in LevelIdx |-> <<book.ask_levels[i].quantity,
                                   book.ask_levels[i].order_count>>]]

\* The index and the orders it points at agree with the resting orders.
OptIndexIsResting ==
    /\ DOMAIN opt.order_hash = DOMAIN oref
    /\ \A id \in DOMAIN oref :
           LET o == g_order_pool.storage[opt.order_hash[id]]
           IN  /\ o.id = id /\ o.side = oref[id].side
               /\ o.quantity = oref[id].quantity /\ o.price = oref[id].price

\* acquire_order hands out a slot that was never handed out before.
PoolHasRoom == g_order_pool.index < OrderPoolSize

\* replaceOrder(id, newId, q, p) against deleteOrder(id) followed by
\* addOrder(newId, side, q, p), on the book as it is.
ReplaceAsDeleteAdd(id, newId, q, p) ==
    LET slot == find(opt.order_hash, id)
        side == g_order_pool.storage[slot].side
        r == replaceOrder(OptWorld, id, newId, q, p)
        d == addOrder(deleteOrder(OptWorld, id), newId, side, q, p)
    IN  /\ OptAggregates(r.book) = OptAggregates(d.book)
        /\ DOMAIN r.book.order_hash = DOMAIN d.book.order_hash

\* C33: on a book whose index agrees with its resting orders, replacing a
\* resting id leaves the level aggregates and the set of indexed ids as
\* deleting it and then adding the new id on the same side does, a new id
\* already resting and a new price equal to the old one included.
C33_ReplaceIsDeleteAdd ==
    OptIndexIsResting =>
        \A id \in DOMAIN oref, newId \in OptInputs.ids,
           q \in OptInputs.quantities, p \in OptInputs.prices :
            (PoolHasRoom \/ newId \in DOMAIN oref \ {id}) =>
                ReplaceAsDeleteAdd(id, newId, q, p)

\* The same with a new id that does not rest, or is the replaced id.
ReplaceToFreeIdIsDeleteAdd ==
    (OptIndexIsResting /\ PoolHasRoom) =>
        \A id \in DOMAIN oref :
            \A newId \in OptInputs.ids \ (DOMAIN oref \ {id}),
               q \in OptInputs.quantities, p \in OptInputs.prices :
                ReplaceAsDeleteAdd(id, newId, q, p)

---------------------------------------------------------------------------
(* The Decoder                                                             *)

\* One call of decode_one on one of the buffers.
DecodeOne ==
    \E c \in DecoderCalls :
        LET r == decode_one(symtab, c.buf)
        IN  /\ symtab' = r.symtab
            /\ dec' = [buf |-> c.buf, fields |-> c.fields, res |-> r.res,
                       before |-> symtab, calls |-> 1]
            /\ UNCHANGED <<syms, NotDecoder>>

DecoderNext == DecodeOne

\* The decoder and its symbol table, given one buffer after another.
SpecDecoder == Init /\ [][DecoderNext]_vars

---------------------------------------------------------------------------
(* The SymbolTable                                                         *)

\* One call of get_or_intern.  The call always returns (line 33).
Intern ==
    \E sym8 \in InternSymbols :
        LET r == get_or_intern(symtab, sym8)
            sv == Trimmed(sym8)
        IN  /\ symtab' = r.symtab
            /\ syms' = [syms EXCEPT
                   !.order = IF \E k \in DOMAIN @ : @[k] = sv THEN @
                             ELSE Append(@, sv),
                   !.last = <<[sym8 |-> sym8, id |-> r.id, returned |-> TRUE,
                               before |-> symtab]>>]
            /\ UNCHANGED <<dec, NotDecoder>>

SymbolsNext == Intern

InitSymbols ==
    UltraStart /\ TableStart /\ OptStart /\ ArbStart /\ SymbolsStart /\ NetStart

\* The symbol table alone, new or nearly full, asked for one symbol after
\* another.
SpecSymbols == InitSymbols /\ [][SymbolsNext]_vars

\* The distinct symbols interned before the call c, and whether c asks for
\* one more.
Interned(c) == syms.filled + Cardinality(DOMAIN c.before.map)

AsksNew(c) == Trimmed(c.sym8) \notin DOMAIN c.before.map

Position(sv) == CHOOSE k \in DOMAIN syms.order : syms.order[k] = sv

\* C21: in any sequence of get_or_intern calls, the k-th distinct trimmed
\* symbol receives id k, every later call with the same trimmed symbol
\* returns the same id, two different trimmed symbols never share an id,
\* and 0 is never returned.
C21_IdsInOrderOfFirstCall ==
    /\ \A c \in {syms.last[i] : i \in DOMAIN syms.last} :
           /\ c.id = syms.filled + Position(Trimmed(c.sym8))
           /\ c.id # 0
    /\ \A s1 \in DOMAIN symtab.map :
           /\ symtab.map[s1] \notin 1 .. syms.filled
           /\ \A s2 \in DOMAIN symtab.map :
                  s1 # s2 => symtab.map[s1] # symtab.map[s2]

\* C22: interning a distinct symbol after all 65535 ids have been assigned
\* is fatal for the process: get_or_intern does not return an id for it,
\* no id is reassigned to a second symbol, and the stored bytes of the
\* symbols interned before are not overwritten.
C22_ExhaustedIsFatal ==
    \A c \in {syms.last[i] : i \in DOMAIN syms.last} :
        (AsksNew(c) /\ Interned(c) >= U16 - 1) =>
            /\ ~c.returned
            /\ symtab.map = c.before.map
            /\ symtab.storage = c.before.storage
            /\ DOMAIN symtab.storage \cap (1 .. syms.filled) = {}

---------------------------------------------------------------------------
(* The pipeline of main.cpp: each message is decoded and its event applied *)
(* to the one book of the run, `OB ob` (the OptimizedOrderBook, the        *)
(* default of main).                                                       *)

\* The unsigned integer whose bytes, most significant first, are bytes.
RECURSIVE Value(_)
Value(bytes) ==
    IF bytes = <<>> THEN 0
    ELSE Value(SubSeq(bytes, 1, Len(bytes) - 1)) * 256 + bytes[Len(bytes)]

\* A uint32_t of an event as the book keeps it.
Quantity(bytes) == <<Value(SubSeq(bytes, 1, 2)), Value(SubSeq(bytes, 3, 4))>>

\* The char of an event as the book keeps it.
Side(char) == IF char = ASCII.B THEN "B" ELSE "S"

\* core::apply on the OptimizedOrderBook: the operation std::visit
\* dispatches the event to.  No overload reads sym_id.
apply(evt, w) ==
    IF evt.kind = "Add"
    THEN addOrder(w, Value(evt.id), Side(evt.side), Quantity(evt.qty), Value(evt.px))
    ELSE IF evt.kind = "Exec"
    THEN executeOrder(w, Value(evt.id), Quantity(evt.exec_qty))
    ELSE IF evt.kind = "Cancel"
    THEN executeOrder(w, Value(evt.id), Quantity(evt.qty))
    ELSE IF evt.kind = "Delete"
    THEN deleteOrder(w, Value(evt.id))
    ELSE replaceOrder(w, Value(evt.old_id), Value(evt.new_id), Quantity(evt.qty),
                      Value(evt.px))

\* The messages of the input: orders 1 and 2, of 2 shares at 60000, for
\* the symbols "AB" and "Q"; executions and cancels of 1 share.
InputRefs == {<<0, 0, 0, 0, 0, 0, 0, 1>>, <<0, 0, 0, 0, 0, 0, 0, 2>>}

InputFields ==
    [messageType : {<<ASCII.A>>}, orderReferenceNumber : InputRefs,
     buySellIndicator : {<<ASCII.B>>}, shares : {<<0, 0, 0, 2>>},
     stockSymbol : WireSymbols, price : {<<0, 0, 234, 96>>}]
    \cup [messageType : {<<ASCII.E>>, <<ASCII.X>>}, orderReferenceNumber : InputRefs,
          executedShares : {<<0, 0, 0, 1>>}, canceledShares : {<<0, 0, 0, 1>>}]
    \cup [messageType : {<<ASCII.D>>}, orderReferenceNumber : InputRefs]
    \cup [messageType : {<<ASCII.U>>}, originalOrderReferenceNumber : InputRefs,
          newOrderReferenceNumber : InputRefs, shares : {<<0, 0, 0, 1>>},
          price : {<<0, 0, 234, 96>>}]
    \cup [messageType : {<<ASCII.S>>}]

\* One turn of the loop of run_file_mode_impl (lines 33-40) and of
\* run_net_mode_impl (lines 100-107): decode_one, then apply when the
\* result has an event.
PipelineMessage ==
    \E f \in InputFields :
        LET r == decode_one(symtab, Wire(f))
        IN  /\ r.res.event # <<>> /\ r.res.event[1].kind = "Add"
                => g_order_pool.index < OrderPoolSize
            /\ symtab' = r.symtab
            /\ dec' = [buf |-> Wire(f), fields |-> <<f>>, res |-> r.res,
                       before |-> symtab, calls |-> 1]
            /\ OptStep(IF r.res.event = <<>> THEN OptWorld
                       ELSE apply(r.res.event[1], OptWorld))
            /\ UNCHANGED <<oref, syms, uvars, tvars, avars, nvars>>

PipelineNext == PipelineMessage

SpecPipeline == Init /\ [][PipelineNext]_vars

\* The event the step dispatched, as a set: empty or {e}.
Dispatched == {dec'.res.event[i] : i \in DOMAIN dec'.res.event}

\* C23: an event whose symbol_id is 0 (unknown) is ignored by the apply
\* layer: dispatching it changes no order book state.  This covers every
\* Replace the decoder produces, which always carries symbol_id 0.
C23_UnknownSymbolIgnored ==
    [][\A e \in Dispatched :
           ("sym_id" \in DOMAIN e /\ e.sym_id = 0)
               => UNCHANGED <<opt, g_order_pool>>]_vars

\* The book the pipeline applies the events of a symbol to: the one book
\* of the run, whatever the symbol.
BookOf(sym_id) == OptWorld

\* The level aggregates and the best prices of a book.
Aggregates(w) ==
    [bid |-> [i \in LevelIdx |-> <<w.book.bid_levels[i].quantity,
                                   w.book.bid_levels[i].order_count>>],
     ask |-> [i \in LevelIdx |-> <<w.book.ask_levels[i].quantity,
                                   w.book.ask_levels[i].order_count>>],
     best_bid |-> getBestBid(w.book), best_ask |-> getBestAsk(w.book)]

\* The ids of the symbols interned so far.
SymbolIds(t) == {t.map[sv] : sv \in DOMAIN t.map}

\* C24: each symbol has an independent book: applying an event decoded
\* for symbol X never changes the level aggregates or the best prices of
\* the book of a different symbol Y.
C24_BooksIndependent ==
    [][\A e \in Dispatched :
           ("sym_id" \in DOMAIN e /\ e.sym_id # 0) =>
               \A y \in SymbolIds(symtab) \ {e.sym_id} :
                   Aggregates(BookOf(y))' = Aggregates(BookOf(y))]_vars

---------------------------------------------------------------------------
(* The LockFreeQueue, one step for each access to head_, tail_ and an      *)
(* element of buffer_                                                      *)

NotNet == <<uvars, tvars, ovars, avars, dvars>>

QStep(qu) == queue' = qu /\ UNCHANGED <<lst, NotNet>>

\* push, lines 13-14: the producer reads tail_.
PushLoadTail ==
    /\ queue.prod.pc = "outside"
    /\ Len(queue.pushed) + queue.refused < MaxPushes
    /\ QStep([queue EXCEPT !.prod = [pc |-> "head", index |-> queue.tail,
                                  next |-> (queue.tail + 1) % size(queue),
                                  value |-> PacketView(Len(queue.pushed) + queue.refused + 1)]])

\* Lines 15-17: it reads head_ and returns false when the queue is full.
PushLoadHead ==
    /\ queue.prod.pc = "head"
    /\ QStep(IF Full(queue.prod.next, queue.head)
             THEN [queue EXCEPT !.prod = Outside, !.refused = @ + 1]
             ELSE [queue EXCEPT !.prod.pc = "data"])

\* Line 18: it copies the value into buffer_[tail], member by member.
PushCopyData ==
    /\ queue.prod.pc = "data"
    /\ QStep([queue EXCEPT !.buffer[queue.prod.index].data = queue.prod.value.data,
                       !.prod.pc = "len"])

PushCopyLen ==
    /\ queue.prod.pc = "len"
    /\ QStep([queue EXCEPT !.buffer[queue.prod.index].len = queue.prod.value.len,
                       !.prod.pc = "tail"])

\* Lines 19-20: it stores tail_ and returns true.
PushStoreTail ==
    /\ queue.prod.pc = "tail"
    /\ QStep([queue EXCEPT !.tail = queue.prod.next,
                       !.pushed = Append(@, queue.prod.value),
                       !.prod = Outside])

\* pop, line 24: the consumer reads head_.
PopLoadHead ==
    /\ queue.cons.pc = "outside"
    /\ QStep([queue EXCEPT !.cons = [pc |-> "tail", index |-> queue.head, next |-> 0,
                                  value |-> PacketView0]])

\* Lines 25-27: it reads tail_ and returns false when the queue is empty.
PopLoadTail ==
    /\ queue.cons.pc = "tail"
    /\ QStep(IF Empty(queue.cons.index, queue.tail)
             THEN [queue EXCEPT !.cons = Outside]
             ELSE [queue EXCEPT !.cons.pc = "data"])

\* Line 28: it copies buffer_[head] into value, member by member.
PopCopyData ==
    /\ queue.cons.pc = "data"
    /\ QStep([queue EXCEPT !.cons.value.data = queue.buffer[queue.cons.index].data,
                       !.cons.pc = "len"])

PopCopyLen ==
    /\ queue.cons.pc = "len"
    /\ QStep([queue EXCEPT !.cons.value.len = queue.buffer[queue.cons.index].len,
                       !.cons.pc = "head"])

\* Lines 29-30: it stores head_ and returns true.
PopStoreHead ==
    /\ queue.cons.pc = "head"
    /\ QStep([queue EXCEPT !.head = (queue.cons.index + 1) % size(queue),
                       !.popped = Append(@, queue.cons.value),
                       !.cons = Outside])

ProducerStep ==
    PushLoadTail \/ PushLoadHead \/ PushCopyData \/ PushCopyLen \/ PushStoreTail

ConsumerStep ==
    PopLoadHead \/ PopLoadTail \/ PopCopyData \/ PopCopyLen \/ PopStoreHead

QueueNext == ProducerStep \/ ConsumerStep

InitQueue ==
    /\ UltraStart /\ TableStart /\ OptStart /\ ArbStart /\ DecoderStart
    /\ QueueStart

\* One producer and one consumer on one queue, in every interleaving of
\* their accesses.
SpecQueue == InitQueue /\ [][QueueNext]_vars

\* The elements from head_ up to tail_, in this order.
Contents(qu) ==
    [i \in 1 .. ((qu.tail - qu.head) % size(qu)) |->
        qu.buffer[(qu.head + i - 1) % size(qu)]]

\* The values popped are the first of the values pushed, in push order,
\* each as it was pushed, and the values pushed after them are the
\* elements of the queue.
PopsArePrefix ==
    /\ Len(queue.popped) <= Len(queue.pushed)
    /\ \A i \in 1 .. Len(queue.popped) : queue.popped[i] = queue.pushed[i]
    /\ queue.popped \o Contents(queue) = queue.pushed

\* A thread inside push or pop can take its next step, wherever the other
\* thread is.
NeverBlocks ==
    /\ queue.prod.pc # "outside" => ENABLED ProducerStep
    /\ queue.cons.pc # "outside" => ENABLED ConsumerStep

\* The push that returns false writes nothing.
RefusedLeaves ==
    queue'.refused > queue.refused =>
        /\ queue'.buffer = queue.buffer
        /\ queue'.head = queue.head /\ queue'.tail = queue.tail

\* C27: with one thread calling push and one calling pop, in every
\* interleaving of their steps, the values of the successful pops are a
\* prefix of the values of the successful pushes, in push order, none
\* lost, duplicated or torn; a push that returns false leaves the queue
\* as it is, and neither operation ever blocks.
C27_PopsArePrefixOfPushes ==
    /\ [](PopsArePrefix /\ NeverBlocks)
    /\ [][RefusedLeaves]_vars

\* Two values went through a queue that was full in between, and the
\* consumer is reading the third while the producer is outside.
C27_Witness ==
    /\ Len(queue.popped) = 2 /\ queue.refused = 1
    /\ queue.cons.pc = "len"

---------------------------------------------------------------------------
(* The FeedListener: the thread that calls start() and stop(), the thread  *)
(* of run(), and the consumer that calls pop().                            *)

LStep(l) == lst' = l /\ UNCHANGED <<queue, NotNet>>

\* start(), lines 14-18.  Assigning to th_ while it is joinable calls
\* std::terminate.
Start ==
    /\ lst.caller = "outside" /\ ~lst.terminated
    /\ LStep(IF lst.running
             THEN [lst EXCEPT !.last = "start", !.started = FALSE]
             ELSE IF lst.joinable
             THEN [lst EXCEPT !.running = TRUE, !.terminated = TRUE]
             ELSE [lst EXCEPT !.running = TRUE, !.joinable = TRUE,
                              !.run = "socket", !.failed = "none",
                              !.last = "start", !.started = TRUE])

\* stop(), lines 21-22, up to the join.
Stop ==
    /\ lst.caller = "outside" /\ ~lst.terminated
    /\ LStep(IF ~lst.running THEN [lst EXCEPT !.last = "stop"]
             ELSE IF lst.joinable
             THEN [lst EXCEPT !.running = FALSE, !.caller = "join"]
             ELSE [lst EXCEPT !.running = FALSE, !.last = "stop"])

\* th_.join() returns once run() has returned.
StopJoined ==
    /\ lst.caller = "join" /\ lst.run = "exited"
    /\ LStep([lst EXCEPT !.joinable = FALSE, !.run = "none",
                         !.caller = "outside", !.last = "stop"])

\* A startup call of run() that fails stores false in running_ and returns.
Startup(call, then) ==
    /\ lst.run = call /\ ~lst.terminated
    /\ \E ok \in BOOLEAN :
           LStep(IF ok THEN [lst EXCEPT !.run = then]
                 ELSE [lst EXCEPT !.running = FALSE, !.run = "exited",
                                  !.failed = call])

\* run(), lines 26-27, 36-41 and 46-51.
RunSocket == Startup("socket", "bind")

RunBind == Startup("bind", "membership")

RunMembership == Startup("membership", "loop")

\* The views of the n ring slots from ring_idx_ on, pushed in this order;
\* a view the full queue refuses is dropped.
RECURSIVE PushSlots(_, _, _)
PushSlots(qu, ring_idx, n) ==
    IF n = 0 THEN qu
    ELSE PushSlots(push(qu, [data |-> ring_idx % size(qu), len |-> 1]).queue,
                   ring_idx + 1, n - 1)

\* The listener after recvmmsg has written n datagrams to the slots from
\* ring_idx_ on and their views have been offered to the queue: a slot is
\* written, and ring_idx_ moves on, whether or not the view is accepted.
RECURSIVE Received(_, _, _)
Received(l, qu, n) ==
    IF n = 0 THEN l
    ELSE LET slot == l.ring_idx % size(qu)
             r == push(qu, [data |-> slot, len |-> 1])
         IN  Received([l EXCEPT !.ring[slot] = l.dgrams + 1,
                                !.dgrams = @ + 1,
                                !.sent = IF r.ret THEN Append(@, l.dgrams + 1) ELSE @,
                                !.dropped = IF r.ret THEN @ ELSE @ + 1,
                                !.ring_idx = (@ + 1) % size(qu)],
                      r.queue, n - 1)

\* Lines 67-92: one turn of the receive loop with n packets received, or
\* the way out of it (line 105) when running_ is false.
RunLoop ==
    /\ lst.run = "loop" /\ ~lst.terminated
    /\ IF lst.running
       THEN \E n \in 0 .. Min({MaxBatch, MaxDatagrams - lst.dgrams}) :
                /\ lst' = Received(lst, queue, n)
                /\ queue' = PushSlots(queue, lst.ring_idx, n)
       ELSE lst' = [lst EXCEPT !.run = "exited"] /\ queue' = queue
    /\ UNCHANGED NotNet

\* FeedListener::pop, by the thread of the arbiter.
ListenerPop ==
    /\ ~lst.terminated
    /\ queue' = pop(queue).queue
    /\ lst' = [lst EXCEPT !.sent = IF pop(queue).ret THEN Tail(@) ELSE @]
    /\ UNCHANGED NotNet

ListenerNext ==
    \/ Start \/ Stop \/ StopJoined
    \/ RunSocket \/ RunBind \/ RunMembership \/ RunLoop
    \/ ListenerPop

\* One listener, started and stopped any number of times.
SpecListener == Init /\ [][ListenerNext]_vars

---------------------------------------------------------------------------
(* The receive loop and the consumer of its views.  The views the arbiter  *)
(* pops point into ring_; it keeps them in its per-feed buffer and reads   *)
(* their bytes when it splits a packet and when it takes a message.        *)

\* What a read of the view v finds: the datagram v was enqueued for, and
\* the datagram whose bytes its slot holds now.
ReadOf(v) == [for |-> v.for, got |-> lst.ring[v.data]]

\* load_feed_messages, line 21: pop(pkt).  When the queue is empty the
\* loop ends and next_message goes on to its first selection.
LoadPop ==
    LET r == pop(queue)
    IN  /\ lst.con.pc = "load"
        /\ queue' = r.queue
        /\ lst' = IF r.ret
                  THEN [lst EXCEPT !.sent = Tail(@),
                                   !.con.pkt = <<[data |-> r.value.data,
                                                  for |-> Head(lst.sent)]>>,
                                   !.con.pc = "split"]
                  ELSE [lst EXCEPT !.con.pc = "pick", !.con.picks = 0]
        /\ UNCHANGED NotNet

\* load_feed_messages, lines 22-30: the bytes of pkt are read to find its
\* messages (one to the packet here), whose views are appended to the
\* per-feed buffer.
LoadSplit ==
    /\ lst.con.pc = "split"
    /\ lst' = [lst EXCEPT !.con.read = <<ReadOf(lst.con.pkt[1])>>,
                          !.con.buf = @ \o lst.con.pkt,
                          !.con.pkt = <<>>,
                          !.con.pc = "load"]
    /\ UNCHANGED <<queue, NotNet>>

\* One selection of next_message on the buffer of this feed (the other
\* being empty): the front is taken and its header is read (lines 70-72);
\* its bytes are read again when it is copied to the gap buffer (line 77)
\* or decoded by the caller (main.cpp:100).  A first selection that
\* returned nothing is followed by a second (line 94).
Pick ==
    /\ lst.con.pc = "pick"
    /\ IF lst.con.buf = <<>>
       THEN lst' = [lst EXCEPT !.con.pc = "load"]
       ELSE \E again \in (IF lst.con.picks = 0 THEN BOOLEAN ELSE {FALSE}) :
                lst' = [lst EXCEPT !.con.read = <<ReadOf(Head(lst.con.buf))>>,
                                   !.con.buf = Tail(@),
                                   !.con.picks = IF again THEN 1 ELSE 0,
                                   !.con.pc = IF again THEN "pick" ELSE "load"]
    /\ UNCHANGED <<queue, NotNet>>

RingNext == RunLoop \/ LoadPop \/ LoadSplit \/ Pick

InitRing ==
    UltraStart /\ TableStart /\ OptStart /\ ArbStart /\ DecoderStart /\ RingStart

\* The receive thread and the consumer, in every interleaving.
SpecRing == InitRing /\ [][RingNext]_vars

\* C35: no PacketView is read after the receive loop has rewritten the
\* ring slot it points to: for every interleaving of the receive thread
\* and the consumer, every read of a view finds the bytes of the datagram
\* for which the view was enqueued.
C35_ViewsOutliveNoRewrite ==
    \A i \in DOMAIN lst.con.read : lst.con.read[i].got = lst.con.read[i].for

\* The same while the queue has refused no view.
StaleOnlyAfterDrop ==
    lst.dropped = 0 =>
        \A i \in DOMAIN lst.con.read : lst.con.read[i].got = lst.con.read[i].for

\* C25: start() returns failure whenever socket creation, bind or the
\* multicast join fails at startup; it returns success only when the
\* receive loop is actually running.
C25_StartReportsStartupFailure == lst.failed # "none" => ~lst.started

\* C26: in every state a listener can be in after start() was called, a
\* call of stop() makes the receive loop exit and returns only after the
\* thread of run() has been joined: th_ is not left joinable.
C26_StopJoinsThread ==
    (lst.last = "stop" /\ lst.caller = "outside")
        => ~lst.joinable /\ lst.run = "none"

---------------------------------------------------------------------------
(* Either book.  run_net_mode_impl<OB> is built with one book type, so a  *)
(* run works on the UltraOrderBook or on the OptimizedOrderBook, and the   *)
(* other one stays as constructed.                                         *)

UltraUntouched == ultra \in UltraDefaultInit /\ uref = <<>>

OptUntouched ==
    opt = OptimizedOrderBook0 /\ g_order_pool = OrderPool0 /\ oref = <<>>

BooksNext ==
    \/ OptUntouched /\ \/ UltraAdd(BothInputs)
                       \/ UltraExecute(BothInputs)
                       \/ UltraDelete(BothInputs)
                       \/ UltraReplace(BothInputs)
    \/ UltraUntouched /\ \/ OptAdd(BothInputs)
                         \/ OptExecute(BothInputs)
                         \/ OptDelete(BothInputs)
                         \/ OptReplace(BothInputs)

\* A run on one of the two books, given the same kinds of operations.
SpecBooks == InitDefault /\ [][BooksNext]_vars

---------------------------------------------------------------------------
(* Both books fed the same events through core::apply, as two runs of the  *)
(* program on one file, with and without --ultra.                          *)

\* The events of a run: one id, the lowest and the highest price.
FlagInputs ==
    [ids |-> {1}, quantities |-> {U32(2)}, executed |-> {U32(1)},
     prices |-> {MIN_PRICE, MAX_PRICE}]

\* apply(evt, ob) on the UltraOrderBook and on the OptimizedOrderBook.
ApplyBoth(u, w) ==
    /\ ultra' = u
    /\ CountsInBound(ultra')
    /\ OptStep(w)
    /\ UNCHANGED <<uref, oref, tvars, avars, dvars, nvars>>

ApplyAdd ==
    \E id \in FlagInputs.ids, side \in Sides,
       q \in FlagInputs.quantities, p \in FlagInputs.prices :
        /\ g_order_pool.index < OrderPoolSize
        /\ ApplyBoth(ultra_addOrder(ultra, id, side, q, p),
                     addOrder(OptWorld, id, side, q, p))

ApplyExec ==
    \E id \in FlagInputs.ids, q \in FlagInputs.executed :
        ApplyBoth(ultra_executeOrder(ultra, id, q), executeOrder(OptWorld, id, q))

\* A cancel of the whole quantity.
ApplyCancel ==
    \E id \in FlagInputs.ids, q \in FlagInputs.quantities :
        ApplyBoth(ultra_executeOrder(ultra, id, q), executeOrder(OptWorld, id, q))

ApplyDelete ==
    \E id \in FlagInputs.ids :
        ApplyBoth(ultra_deleteOrder(ultra, id), deleteOrder(OptWorld, id))

ApplyReplace ==
    \E oldId \in FlagInputs.ids, newId \in FlagInputs.ids,
       q \in FlagInputs.quantities, p \in FlagInputs.prices :
        ApplyBoth(ultra_replaceOrder(ultra, oldId, newId, q, p),
                  replaceOrder(OptWorld, oldId, newId, q, p))

FlagNext ==
    \/ ApplyAdd
    \/ ApplyExec
    \/ ApplyCancel
    \/ ApplyDelete
    \/ ApplyReplace

\* The two books side by side, both value-initialised.
SpecFlag == Init /\ [][FlagNext]_vars

\* C34: fed the same events, with prices in [MIN_PRICE, MAX_PRICE], the
\* OptimizedOrderBook and the UltraOrderBook report the same best bid and
\* the same best ask after every event.
C34_SameBestPrices ==
    /\ getBestBid(opt) = ultra_getBestBid(ultra)
    /\ getBestAsk(opt) = ultra_getBestAsk(ultra)

\* The best bids agree.
SameBestBid == getBestBid(opt) = ultra_getBestBid(ultra)

\* The best asks agree.
SameBestAsk == getBestAsk(opt) = ultra_getBestAsk(ultra)

---------------------------------------------------------------------------
(* Claims about the UltraOrderBook                                         *)

\* The slots linked from p through next, in list order (at most n of them).
RECURSIVE ListFrom(_, _, _)
ListFrom(pool, p, n) ==
    IF p = NULL \/ n = 0 THEN <<>>
    ELSE <<p>> \o ListFrom(pool, pool[p].next, n - 1)

LevelList(b, level) == ListFrom(b.pool, level.first_order, Len(b.pool))

RECURSIVE SumHalf(_, _, _)
SumHalf(pool, list, half) ==
    IF list = <<>> THEN 0
    ELSE pool[Head(list)].quantity[half] + SumHalf(pool, Tail(list), half)

\* total = the sum of the list's quantities, as a number (no wrap).
IsSumOf(total, pool, list) ==
    LET lo == SumHalf(pool, list, 2)
        hi == SumHalf(pool, list, 1) + (lo \div U16)
    IN  total = <<hi, lo % U16>>

AllLevels(b) == {b.bid_levels[i] : i \in LevelIdx} \cup {b.ask_levels[i] : i \in LevelIdx}

\* C3: on every level of either side, total_quantity is the sum of the
\* quantity fields of the orders linked on the level's list.
C3_TotalQuantityIsSum ==
    \A lv \in AllLevels(ultra) :
        IsSumOf(lv.total_quantity, ultra.pool, LevelList(ultra, lv))

\* C4: on every level of either side, order_count is the number of orders
\* linked on the level's list.
C4_OrderCountIsListLength ==
    \A lv \in AllLevels(ultra) : lv.order_count = Len(LevelList(ultra, lv))

\* C5: ultra_find returns an order for an id exactly when the id is resting.
C5_IndexIsRestingSet ==
    \A id \in OrderIds :
        (ultra_find(ultra.order_hash, id) # NULL) <=> (id \in DOMAIN uref)

\* The prices at which the resting orders of a side have positive total
\* quantity; every resting order has a positive quantity.
RestingPrices(r, side) == {r[id].price : id \in {x \in DOMAIN r : r[x].side = side}}

\* C6: ultra_getBestBid is the highest price with resting bid quantity and
\* ultra_getBestAsk the lowest price with resting ask quantity (0 if none).
C6_BestPrices ==
    /\ ultra_getBestBid(ultra) =
           (IF RestingPrices(uref, "B") = {} THEN 0 ELSE Max(RestingPrices(uref, "B")))
    /\ ultra_getBestAsk(ultra) =
           (IF RestingPrices(uref, "S") = {} THEN 0 ELSE Min(RestingPrices(uref, "S")))

C8_ExecuteAtZeroIsNoOp ==
    \A id \in OrderIds, q \in ExecQuantities :
        LET slot == ultra_find(ultra.order_hash, id)
        IN  (slot # NULL /\ ultra.pool[slot].quantity = U32Zero) =>
               ultra_executeOrder(ultra, id, q) = ultra

\* C10: every inserted id is found, with the order it was inserted with,
\* until it is removed, and no other id is found.
C10_InsertedIdsAreFound ==
    \A id \in TableIds :
        ultra_find(tbl, id) = (IF id \in DOMAIN tbl_live THEN tbl_live[id] ELSE NULL)

\* id is not in the index and does not rest.
Fresh(id) == ultra_find(ultra.order_hash, id) = NULL /\ id \notin DOMAIN uref

\* C18: POOL_CAPACITY bounds the number of concurrently resting orders: an
\* Add of a fresh id is dropped for pool exhaustion only when POOL_CAPACITY
\* orders are resting; while fewer are resting, a fresh Add, and the add
\* half of a Replace, takes effect, whatever was added and deleted before.
C18_PoolBoundsRestingOrders ==
    /\ Cardinality(DOMAIN uref) <= PoolCapacity
    /\ \A id \in OrderIds, side \in Sides, q \in Quantities, p \in Prices :
           (Fresh(id) /\ Cardinality(DOMAIN uref) < PoolCapacity) =>
               ultra_find(ultra_addOrder(ultra, id, side, q, p).order_hash, id) # NULL
    /\ \A oldId \in DOMAIN uref, newId \in OrderIds, q \in Quantities, p \in Prices :
           (Fresh(newId) \/ newId = oldId) =>
               ultra_find(ultra_replaceOrder(ultra, oldId, newId, q, p).order_hash,
                          newId) # NULL

---------------------------------------------------------------------------
(* Claims about both books                                                 *)

\* An Add of an id that the index of the UltraOrderBook finds changes
\* nothing.
UltraDuplicateAddIgnored ==
    \A id \in BothInputs.ids, side \in Sides,
       q \in Quantities, p \in Prices :
        ultra_find(ultra.order_hash, id) # NULL
            => ultra_addOrder(ultra, id, side, q, p) = ultra

\* An Add of an id that the index of the OptimizedOrderBook finds changes
\* neither the book nor the pool.
OptDuplicateAddIgnored ==
    \A id \in BothInputs.ids, side \in Sides, q \in Quantities, p \in Prices :
        find(opt.order_hash, id) # NULL
            => addOrder(OptWorld, id, side, q, p) = OptWorld

AskedIds == OrderIds \cup CollidingIds

\* Exec and Cancel (both ultra_executeOrder), Delete and Replace of an id
\* that the index of the UltraOrderBook does not find change nothing.
UltraAbsentIdIgnored ==
    \A id \in AskedIds :
        ultra_find(ultra.order_hash, id) = NULL =>
            /\ \A q \in ExecQuantities : ultra_executeOrder(ultra, id, q) = ultra
            /\ ultra_deleteOrder(ultra, id) = ultra
            /\ \A newId \in AskedIds, q \in Quantities, p \in Prices :
                   ultra_replaceOrder(ultra, id, newId, q, p) = ultra

\* The same of the OptimizedOrderBook and its pool.
OptAbsentIdIgnored ==
    \A id \in AskedIds :
        find(opt.order_hash, id) = NULL =>
            /\ \A q \in ExecQuantities : executeOrder(OptWorld, id, q) = OptWorld
            /\ deleteOrder(OptWorld, id) = OptWorld
            /\ \A newId \in AskedIds, q \in Quantities, p \in Prices :
                   replaceOrder(OptWorld, id, newId, q, p) = OptWorld

\* C17: an Exec, Cancel, Delete or Replace whose (old) order id is absent
\* from the index leaves the whole book unchanged, in both books; for
\* Replace, in particular, the new id is not created.
C17_AbsentIdIgnored == UltraAbsentIdIgnored /\ OptAbsentIdIgnored

\* An UltraOrderBook in which one id rests, the other is absent and the
\* pool has room: a Replace of the absent id could create a new order.
C17_Witness ==
    /\ ultra_find(ultra.order_hash, 1) = NULL
    /\ ultra_find(ultra.order_hash, 7038) # NULL
    /\ ultra.pool[ultra_find(ultra.order_hash, 7038)].quantity # U32Zero
    /\ ultra.stack_top < PoolCapacity

---------------------------------------------------------------------------
(* Claims about the Decoder                                                *)

\* The type table of the decoder's specification: size in bytes and the
\* event a message of the type gives ("none": no event).
TypeTable ==
    (ASCII.S :> [size |-> 12, emits |-> "none"])
    @@ (ASCII.R :> [size |-> 39, emits |-> "none"])
    @@ (ASCII.A :> [size |-> 36, emits |-> "Add"])
    @@ (ASCII.F :> [size |-> 40, emits |-> "Add"])
    @@ (ASCII.E :> [size |-> 31, emits |-> "Exec"])
    @@ (ASCII.C :> [size |-> 36, emits |-> "Exec"])
    @@ (ASCII.X :> [size |-> 23, emits |-> "Cancel"])
    @@ (ASCII.D :> [size |-> 19, emits |-> "Delete"])
    @@ (ASCII.U :> [size |-> 35, emits |-> "Replace"])

\* The last call was given a buffer whose first byte is no type of the
\* table, or a type whose size is more than the buffer holds.
Rejected ==
    /\ dec.calls = 1 /\ dec.buf # <<>>
    /\ \/ dec.buf[1] \notin DOMAIN TypeTable
       \/ TypeTable[dec.buf[1]].size > Len(dec.buf)

\* C19: decode_one returns message_size 0 and no event whenever the type
\* byte is not one of S, R, A, F, E, C, X, D, U or the size of the type
\* exceeds the buffer length, and then leaves the symbol table unchanged.
C19_RejectedReturnsZero ==
    Rejected => /\ dec.res.message_size = 0
                /\ dec.res.event = <<>>
                /\ symtab = dec.before

\* An Add message that lacks its last byte was rejected after a symbol had
\* been interned by an earlier call.
C19_Witness ==
    /\ Rejected
    /\ dec.buf[1] = ASCII.A /\ Len(dec.buf) = TypeTable[ASCII.A].size - 1
    /\ symtab.next_id = 2

\* The event the type table and the wire fields f give: <<>> for S and R.
EventOf(f, sym_id) ==
    LET emits == TypeTable[f.messageType[1]].emits
    IN  CASE emits = "Add" ->
               <<[kind |-> "Add", id |-> f.orderReferenceNumber,
                  side |-> f.buySellIndicator[1], qty |-> f.shares,
                  px |-> f.price, sym_id |-> sym_id]>>
          [] emits = "Exec" ->
               <<[kind |-> "Exec", id |-> f.orderReferenceNumber,
                  exec_qty |-> f.executedShares]>>
          [] emits = "Cancel" ->
               <<[kind |-> "Cancel", id |-> f.orderReferenceNumber,
                  qty |-> f.canceledShares]>>
          [] emits = "Delete" ->
               <<[kind |-> "Delete", id |-> f.orderReferenceNumber]>>
          [] emits = "Replace" ->
               <<[kind |-> "Replace", old_id |-> f.originalOrderReferenceNumber,
                  new_id |-> f.newOrderReferenceNumber, qty |-> f.shares,
                  px |-> f.price, sym_id |-> 0]>>
          [] OTHER -> <<>>

\* C20: for every well-formed message of type A, F, E, C, X, D or U,
\* decode_one returns the event of the type table (A, F: Add; E, C: Exec;
\* X: Cancel; D: Delete; U: Replace with symbol_id 0) with every field
\* equal to the wire field read big-endian, and message_size equal to the
\* table size of the type; for S and R it returns no event and the table
\* size.
C20_DecodesWireFields ==
    \A f \in {dec.fields[i] : i \in DOMAIN dec.fields} :
        /\ dec.res.message_size = TypeTable[f.messageType[1]].size
        /\ dec.res.event =
               EventOf(f, IF "stockSymbol" \in DOMAIN f
                          THEN symtab.map[Trimmed(f.stockSymbol)] ELSE 0)

\* An Add with MPID was decoded, from a buffer that holds more than the
\* message, with an order reference whose eight bytes all differ.
C20_Witness ==
    /\ dec.fields # <<>>
    /\ dec.fields[1].messageType = <<ASCII.F>>
    /\ dec.fields[1].orderReferenceNumber = <<1, 2, 3, 4, 5, 6, 7, 8>>
    /\ Len(dec.buf) > dec.res.message_size
    /\ dec.res.event # <<>>

---------------------------------------------------------------------------
(* Claims about the OptimizedOrderBook                                     *)

RestingOn(r, side) == {id \in DOMAIN r : r[id].side = side}

\* C9: an order resting at exactly MIN_PRICE or MAX_PRICE that is the only
\* resting order of its side is the best bid (a bid) or the best ask (an ask).
C9_BoundaryPricesAccepted ==
    \A id \in DOMAIN oref :
        (oref[id].price \in {MIN_PRICE, MAX_PRICE} /\ RestingOn(oref, oref[id].side) = {id})
            => IF oref[id].side = "B" THEN getBestBid(opt) = oref[id].price
               ELSE getBestAsk(opt) = oref[id].price

====
